---- MODULE Spec2Model ----
(***************************************************************************)
(* Kamui: session metadata store (internal/storage), transcript discovery  *)
(* (internal/claude) and session lifecycle (internal/session).             *)
(*                                                                         *)
(* Files are modelled as directory entries that name inodes; an open file  *)
(* descriptor keeps naming its inode after a rename or an unlink, as on a  *)
(* POSIX file system.  File contents are sequences of cells: cell i of the *)
(* encoding of JSON document d is <<d, i>>, so a file holds a document in  *)
(* full exactly when its cells are <<d, 1>> .. <<d, JSONLen(d)>>.          *)
(***************************************************************************)
EXTENDS Integers, Sequences, FiniteSets, TLC

VARIABLES
    sdir,       \* TRUE when the sessions directory exists
    dir,        \* sessions directory: file name -> inode (0: no such file)
    inode,      \* inode -> content (sequence of cells)
    sv,         \* per invocation: the position inside SaveSession
    rd,         \* the reading invocation: the position inside LoadSession
    tr,         \* ~/.claude/projects: transcript directory -> id -> transcript file
    recs,       \* session records on disk: <<sessions directory, id>> -> record
    inv,        \* per invocation: the position inside CreateOrResumeSession
    now,        \* the wall clock, read by time.Now()
    mon,        \* the monitor: the position inside monitorForSession
    sz,         \* the calls of cleanupInitMessage made on one transcript
    op,         \* the DeleteSession or ListSessions call made last, with its result
    fs,         \* ~/.claude/projects entry by entry, and the symbolic links to projects
    cc          \* the call of the Claude client made last, with its results

\* storeVars: what no action of the session layer changes; sessVars: what no
\* action of the store changes.
storeVars == <<sdir, dir, inode, sv, rd, sz, op, fs, cc>>
sessVars == <<tr, recs, inv, now, mon, sz, op, fs, cc>>
vars == <<sdir, dir, inode, sv, rd, tr, recs, inv, now, mon, sz, op, fs, cc>>

-----------------------------------------------------------------------------
(* Bounds *)

MaxInodes == 5      \* inodes the file system can hold at once

Writers == {"w1", "w2"}
SessionIds == {"Tasks", "Dev"}

-----------------------------------------------------------------------------
(* pkg/types: Session, reduced to the fields the store and the lifecycle   *)
(* read or write.  A time.Time is its wall instant, its monotonic reading  *)
(* (0: none) and its location.  Metadata.Tags is a slice (nil or a         *)
(* sequence); Metadata.CustomData is a map[string]interface{} with at most *)
(* one key, whose value has a dynamic Go type.                             *)

GoTime(wall, mono) == [wall |-> wall, mono |-> mono, loc |-> "Local"]

NilSlice == [nil |-> TRUE, elems |-> <<>>]
Slice(s) == [nil |-> FALSE, elems |-> s]

NilMap == [kind |-> "nil", n |-> 0]
GoValue(kind, n) == [kind |-> kind, n |-> n]

Session(id, project, claude, created, mod, tags, custom, state, history) ==
    [SessionID |-> id, Path |-> project, WorkingDirectory |-> project,
     ClaudeSessionID |-> claude, Created |-> created, LastModified |-> mod,
     Tags |-> tags, CustomData |-> custom,
     State |-> state, StateHistory |-> history]

-----------------------------------------------------------------------------
(* encoding/json as SaveSession and LoadSession use it *)

\* time.Time.MarshalJSON: RFC 3339 with nanoseconds and the zone offset; the
\* monotonic reading is not part of the text.
JSONTime(t) == [wall |-> t.wall, zone |-> t.loc]

\* A Go value stored in an interface{}: every Go number is written as a JSON
\* number.
JSONValue(v) ==
    CASE v.kind = "nil" -> [j |-> "null", n |-> 0]
      [] v.kind = "string" -> [j |-> "string", n |-> v.n]
      [] OTHER -> [j |-> "number", n |-> v.n]

\* A field tagged omitempty would drop an empty slice; Session has no such tag.
MarshalSliceOmitEmpty(s) ==
    IF s.nil \/ s.elems = <<>> THEN [j |-> "null", elems |-> <<>>]
    ELSE [j |-> "array", elems |-> s.elems]

MarshalSlice(s) ==
    IF s.nil THEN [j |-> "null", elems |-> <<>>]
    ELSE [j |-> "array", elems |-> s.elems]

\* json.MarshalIndent(session, "", "  ")
ToJSON(r) ==
    [sessionId |-> r.SessionID, path |-> r.Path,
     workingDirectory |-> r.WorkingDirectory,
     claudeSessionId |-> r.ClaudeSessionID,
     created |-> JSONTime(r.Created), lastModified |-> JSONTime(r.LastModified),
     tags |-> MarshalSlice(r.Tags), customData |-> JSONValue(r.CustomData),
     state |-> r.State, stateHistory |-> r.StateHistory]

\* Length of the encoded text: longer values give longer text.
JSONLen(d) ==
    2 + Len(d.tags.elems) + (IF d.claudeSessionId = "" THEN 0 ELSE 1)

Encode(d) == [i \in 1..JSONLen(d) |-> <<d, i>>]

Marshal(r) == Encode(ToJSON(r))

\* time.Time.UnmarshalJSON
GoTimeOf(jt) == [wall |-> jt.wall, mono |-> 0, loc |-> jt.zone]

\* json.Unmarshal into an interface{}: a JSON number becomes a float64.
GoValueOf(jv) ==
    CASE jv.j = "null" -> NilMap
      [] jv.j = "string" -> GoValue("string", jv.n)
      [] OTHER -> GoValue("float64", jv.n)

UnmarshalSlice(js) ==
    IF js.j = "null" THEN NilSlice ELSE Slice(js.elems)

FromJSON(d) ==
    [SessionID |-> d.sessionId, Path |-> d.path,
     WorkingDirectory |-> d.workingDirectory,
     ClaudeSessionID |-> d.claudeSessionId,
     Created |-> GoTimeOf(d.created), LastModified |-> GoTimeOf(d.lastModified),
     Tags |-> UnmarshalSlice(d.tags), CustomData |-> GoValueOf(d.customData),
     State |-> d.state, StateHistory |-> d.stateHistory]

\* The text parses exactly when it is one whole document and nothing else.
Parses(data) ==
    /\ Len(data) > 0
    /\ Len(data) = JSONLen(data[1][1])
    /\ \A i \in 1..Len(data) : data[i] = <<data[1][1], i>>

-----------------------------------------------------------------------------
(* The file system under the sessions directory *)

FinalPathOf(id) == <<id, "json">>
TempPathInPlace(id) == <<id, "json">>
TempPathOf(id) == <<id, "tmp">>

FileNames == {FinalPathOf(id) : id \in SessionIds} \cup {<<id, "tmp">> : id \in SessionIds}
Inodes == 1..MaxInodes

\* Inodes named by a directory entry or by an open descriptor.
Referenced(d, s, r) ==
    {d[f] : f \in FileNames} \cup {s[w].fd : w \in Writers} \cup {r.fd}

FreeInodes == Inodes \ Referenced(dir, sv, rd)

\* An inode nobody names any more loses its content.
Collect(ino, d, s, r) ==
    [i \in Inodes |-> IF i \in Referenced(d, s, r) THEN ino[i] ELSE <<>>]

\* A byte of a hole: write(2) past the end of a file zero-fills the gap.
Hole == <<ToJSON(Session("", "", "", GoTime(0, 0), GoTime(0, 0), NilSlice, NilMap, "", <<>>)), 0>>

\* write(2) at offset off: overwrites, and extends the file when needed.
WriteAt(content, off, chunk) ==
    [i \in 1..(IF off + Len(chunk) > Len(content) THEN off + Len(chunk) ELSE Len(content)) |->
        IF i > off /\ i <= off + Len(chunk) THEN chunk[i - off]
        ELSE IF i <= Len(content) THEN content[i] ELSE Hole]

\* An unlink that leaves the entry where it is.
KeepEntry(d, f) == d

\* os.Remove(f): the directory without the entry.
Unlink(d, f) == [d EXCEPT ![f] = 0]

FileContent(f) == IF dir[f] = 0 THEN <<>> ELSE inode[dir[f]]
FileExists(f) == dir[f] # 0

-----------------------------------------------------------------------------
(* Records the invocations of this model save *)

T0 == GoTime(0, 0)

StoredTasks == Session("Tasks", "/a", "c0", T0, T0, Slice(<<"dev">>), NilMap, "active", <<"session_created">>)
ShortRec == Session("Tasks", "/a", "", T0, GoTime(1, 0), NilSlice, NilMap, "active", <<"session_created">>)
LongRec == Session("Tasks", "/a", "c1", T0, GoTime(2, 0), Slice(<<"dev", "x">>), NilMap, "active", <<"session_created">>)

SaveChoices == {ShortRec, LongRec}

NoSession == Session("", "", "", T0, T0, NilSlice, NilMap, "", <<>>)

IdleSave == [pc |-> "idle", rec |-> NoSession, fd |-> 0, off |-> 0, res |-> "none",
             hadPrev |-> FALSE, prev |-> <<>>]
IdleLoad == [pc |-> "idle", id |-> "", fd |-> 0, buf |-> <<>>, res |-> "none",
             cands |-> {}, session |-> NoSession]

MidSave == {"open", "write", "rename", "cleanup"}

IdleOp == [call |-> "none", pc |-> "idle", id |-> "", err |-> "none", ids |-> {}]

\* No entry of ~/.claude/projects looked at, and no call of the client made.
NoFS == [links |-> <<>>, ents |-> <<>>]
NoCall == [call |-> "none", args |-> <<>>, out |-> <<>>]

-----------------------------------------------------------------------------
(* Transcripts, session records and invocations of the session layer.      *)
(* A path is the sequence of its characters.  A transcript id is a number: *)
(* id n names the file that comes n-th in file name order, which is the    *)
(* order of os.ReadDir; 0 is the empty id "".  A transcript is the         *)
(* sequence of its lines.                                                  *)

MaxTranscripts == 3     \* transcript ids the external process can use
Timeout == 3            \* monitorForSession's timeout, in seconds

Procs == {"p1", "p2"}
Names == {"Tasks", "Dev"}
PathA == <<"/", "a">>
PathB == <<"/", "b">>
Projects == {PathA, PathB}
TranscriptIds == 1..MaxTranscripts
NoID == 0

\* strings.ReplaceAll(workingDir, "/", "-")
EncodePath(workingDir) ==
    [i \in 1..Len(workingDir) |-> IF workingDir[i] = "/" THEN "-" ELSE workingDir[i]]

TranscriptDirs == {EncodePath(w) : w \in Projects}

\* A transcript file is a sequence of bytes, grouped here into tokens: a
\* line feed, a carriage return, or the text of one line.  A text is
\* described by what json.Unmarshal makes of it: whether it parses as an
\* object, its "type", its flat "content", its nested message "content", and
\* whether it is longer than the scanner's buffer (bufio.MaxScanTokenSize).
Sentinel == "KAMUI_INIT_MESSAGE"
LF == [k |-> "lf", parses |-> FALSE, type |-> "", content |-> "", nested |-> "", long |-> FALSE]
CR == [k |-> "cr", parses |-> FALSE, type |-> "", content |-> "", nested |-> "", long |-> FALSE]
Text(parses, type, content, nested, long) ==
    [k |-> "text", parses |-> parses, type |-> type, content |-> content,
     nested |-> nested, long |-> long]

\* The user line claude --print writes for the init message, the
\* assistant's answer, and a user line typed in an interactive session.
InitLine == Text(TRUE, "user", "", Sentinel, FALSE)
ReplyLine == Text(TRUE, "assistant", "reply", "", FALSE)
UserLine == Text(TRUE, "user", "hello", "", FALSE)

\* bufio.ScanLines, dropCR
DropCR(line) ==
    IF line # <<>> /\ line[Len(line)].k = "cr" THEN SubSeq(line, 1, Len(line) - 1) ELSE line

RECURSIVE ScanLines(_, _)
\* bufio.Scanner with ScanLines over the bytes of a file: the lines, each
\* without its line feed and without a carriage return before it; bytes
\* after the last line feed are a line when there are any.
ScanLines(data, cur) ==
    IF data = <<>> THEN (IF cur = <<>> THEN <<>> ELSE <<DropCR(cur)>>)
    ELSE IF Head(data).k = "lf" THEN <<DropCR(cur)>> \o ScanLines(Tail(data), <<>>)
    ELSE ScanLines(Tail(data), Append(cur, Head(data)))

\* scanner.Err(): bufio.ErrTooLong when a line does not fit the buffer.
ScanTooLong(data) == \E i \in 1..Len(data) : data[i].long

\* json.Unmarshal([]byte(line), &message) succeeds.
ParsesAsObject(line) == Len(line) = 1 /\ line[1].k = "text" /\ line[1].parses

\* An init test that also accepts a content that only begins with the text.
ResemblesInitMessage(message) ==
    \/ message.nested \in {Sentinel, "KAMUI_INIT_MESSAGE please"}
    \/ message.content \in {Sentinel, "KAMUI_INIT_MESSAGE please"}

\* An init test that accepts every message.
AnyMessage(message) == TRUE

\* isInitMessage: the nested message content, or the flat content, is the
\* init message exactly.
isInitMessage(message) ==
    \/ message.nested = Sentinel
    \/ message.content = Sentinel

\* shouldKeepLine: TRUE to keep the line.
shouldKeepLine(line, foundInitMessage) ==
    \/ ~ParsesAsObject(line)
    \/ line[1].type # "user"
    \/ foundInitMessage
    \/ ~isInitMessage(line[1])

RECURSIVE filterInitMessages(_, _)
\* filterInitMessages: the lines shouldKeepLine keeps; foundInitMessage is
\* set by the first line that is dropped.
filterInitMessages(lines, foundInitMessage) ==
    IF lines = <<>> THEN <<>>
    ELSE IF shouldKeepLine(Head(lines), foundInitMessage)
         THEN <<Head(lines)>> \o filterInitMessages(Tail(lines), foundInitMessage)
         ELSE filterInitMessages(Tail(lines), TRUE)

RECURSIVE WriteLines(_)
\* writeCleanedSession: outFile.WriteString(line + "\n") for every line.
WriteLines(cleanLines) ==
    IF cleanLines = <<>> THEN <<>>
    ELSE Head(cleanLines) \o <<LF>> \o WriteLines(Tail(cleanLines))

\* A transcript <id>.jsonl with its bytes; tmp: <id>.jsonl.tmp exists;
\* gone: the file was there once and has been deleted.
NoTranscript == [exists |-> FALSE, gone |-> FALSE, tmp |-> FALSE, data |-> <<>>]
Transcript(texts) ==
    [exists |-> TRUE, gone |-> FALSE, tmp |-> FALSE,
     data |-> WriteLines([i \in 1..Len(texts) |-> <<texts[i]>>])]
DeletedTranscript == [exists |-> FALSE, gone |-> TRUE, tmp |-> FALSE, data |-> <<>>]

\* A stat test that never reports a missing file.
StatNeverFails(f) == FALSE

\* os.Stat(sessionFile): os.IsNotExist
StatNotExist(f) == ~f.exists

Faults == {"none", "create", "write", "rename"}

\* cleanupInitMessage on transcript file f: the file afterwards and the
\* error returned.  fault names the system call of writeCleanedSession that
\* fails, if one does: os.Create, WriteString (the temporary file stays) or
\* os.Rename (the temporary file is removed).
cleanupInitMessage(f, fault) ==
    IF StatNotExist(f) THEN [file |-> f, err |-> "session file not found"]
    ELSE IF ScanTooLong(f.data) THEN [file |-> f, err |-> "token too long"]
    ELSE LET cleanLines == filterInitMessages(ScanLines(f.data, <<>>), FALSE) IN
         CASE fault = "create" -> [file |-> f, err |-> "create"]
           [] fault = "write" -> [file |-> [f EXCEPT !.tmp = TRUE], err |-> "write"]
           [] fault = "rename" -> [file |-> f, err |-> "rename"]
           [] OTHER -> [file |-> [f EXCEPT !.exists = TRUE, !.tmp = FALSE,
                                           !.data = WriteLines(cleanLines)],
                        err |-> "none"]

NoCalls == [runs |-> 0, orig |-> NoTranscript, errs |-> <<>>, outs |-> <<>>]

NoTranscripts == [d \in TranscriptDirs |-> [t \in TranscriptIds |-> NoTranscript]]

\* storage.New: the sessions directory of a Storage made for projectPath.
SessionsDir(projectPath) == <<"~", ".claude", "kamui-sessions">>
SessionFile(projectPath, id) == <<SessionsDir(projectPath), id>>
SessionFiles == {SessionFile(w, n) : w \in Projects, n \in Names}

NoRecord == Session("", <<>>, NoID, T0, T0, NilSlice, NilMap, "", <<>>)
NoRecords == [f \in SessionFiles |-> NoRecord]

IdleInv == [pc |-> "idle", name |-> "", project |-> <<>>, session |-> NoRecord,
            loaded |-> NoRecord, fresh |-> FALSE, before |-> <<>>, after |-> <<>>,
            diffed |-> FALSE, newID |-> NoID, monitor |-> "none", made |-> NoID,
            bound |-> NoID, ret |-> FALSE, cleanupErr |-> "none", res |-> "none",
            failed |-> <<>>, err |-> <<>>, timer |-> "none", age |-> 0]

IdleMon == [pc |-> "idle", workingDir |-> <<>>, before |-> <<>>, elapsed |-> 0,
            hist |-> <<>>, id |-> NoID, res |-> "none", early |-> FALSE]

-----------------------------------------------------------------------------
(* Storage.SaveSession, one file-system call per step *)

\* The path os.WriteFile writes and os.Rename moves.
TempPath(id) == TempPathOf(id)
FinalPath(id) == FinalPathOf(id)

\* Entry: Initialize (MkdirAll) and json.MarshalIndent.
SaveBegin(w, r) ==
    /\ sv[w].pc \in {"idle", "done", "crashed"}
    /\ sdir' = TRUE
    /\ sv' = [sv EXCEPT ![w] = [pc |-> "open", rec |-> r, fd |-> 0, off |-> 0,
                                res |-> "none",
                                hadPrev |-> FileExists(FinalPath(r.SessionID)),
                                prev |-> FileContent(FinalPath(r.SessionID))]]
    /\ UNCHANGED <<dir, inode, rd>>
    /\ UNCHANGED sessVars

\* Initialize fails: SaveSession returns the StoragePermission error.
SaveInitFail(w, r) ==
    /\ sv[w].pc \in {"idle", "done", "crashed"}
    /\ sv' = [sv EXCEPT ![w] = [IdleSave EXCEPT !.pc = "done", !.rec = r,
                                !.res = "err_init"]]
    /\ UNCHANGED <<sdir, dir, inode, rd>>
    /\ UNCHANGED sessVars

\* os.WriteFile, open(tempFile, O_WRONLY|O_CREATE|O_TRUNC, 0600).
SaveOpenTemp(w) ==
    LET t == TempPath(sv[w].rec.SessionID) IN
    /\ sv[w].pc = "open"
    /\ IF dir[t] # 0
       THEN /\ sv' = [sv EXCEPT ![w].pc = "write", ![w].fd = dir[t], ![w].off = 0]
            /\ inode' = [inode EXCEPT ![dir[t]] = <<>>]
            /\ dir' = dir
       ELSE /\ FreeInodes # {}
            /\ LET i == CHOOSE x \in FreeInodes : \A y \in FreeInodes : x <= y IN
               /\ sv' = [sv EXCEPT ![w].pc = "write", ![w].fd = i, ![w].off = 0]
               /\ dir' = [dir EXCEPT ![t] = i]
               /\ inode' = [inode EXCEPT ![i] = <<>>]
    /\ UNCHANGED <<sdir, rd>>
    /\ UNCHANGED sessVars

\* os.WriteFile, write(2): the kernel takes n >= 1 of the bytes left.
SaveWrite(w, n) ==
    LET data == Marshal(sv[w].rec)
        off == sv[w].off
        last == off + n = Len(data) IN
    /\ sv[w].pc = "write"
    /\ n \in 1..(Len(data) - off)
    /\ inode' = Collect([inode EXCEPT ![sv[w].fd] =
                            WriteAt(inode[sv[w].fd], off, SubSeq(data, off + 1, off + n))],
                        dir, [sv EXCEPT ![w].fd = IF last THEN 0 ELSE sv[w].fd], rd)
    /\ sv' = [sv EXCEPT ![w].off = off + n,
                        ![w].fd = IF last THEN 0 ELSE sv[w].fd,
                        ![w].pc = IF last THEN "rename" ELSE "write"]
    /\ UNCHANGED <<sdir, dir, rd>>
    /\ UNCHANGED sessVars

\* os.WriteFile fails (open or write error): SaveSession returns the error
\* and leaves whatever the temporary file holds.
SaveWriteFail(w) ==
    /\ sv[w].pc \in {"open", "write"}
    /\ sv' = [sv EXCEPT ![w].pc = "done", ![w].res = "err_write", ![w].fd = 0, ![w].prev = <<>>]
    /\ inode' = Collect(inode, dir, sv', rd)
    /\ UNCHANGED <<sdir, dir, rd>>
    /\ UNCHANGED sessVars

\* os.Rename(tempFile, sessionFile) succeeds: atomic replacement of the final
\* entry.
SaveRename(w) ==
    LET t == TempPath(sv[w].rec.SessionID)
        f == FinalPath(sv[w].rec.SessionID) IN
    /\ sv[w].pc = "rename"
    /\ dir[t] # 0
    /\ dir' = [g \in FileNames |-> IF g = f THEN dir[t] ELSE IF g = t THEN 0 ELSE dir[g]]
    /\ sv' = [sv EXCEPT ![w].pc = "done", ![w].res = "ok", ![w].prev = <<>>]
    /\ rd' = IF rd.pc \in {"open", "read", "parse"} /\ rd.id = sv[w].rec.SessionID
             THEN [rd EXCEPT !.cands = @ \cup {inode[dir[t]]}]
             ELSE rd
    /\ inode' = Collect(inode, dir', sv', rd')
    /\ UNCHANGED sdir
    /\ UNCHANGED sessVars

\* os.Rename returns an error (the temporary entry is gone, or the system
\* refuses the rename): nothing is changed.
SaveRenameFail(w) ==
    /\ sv[w].pc = "rename"
    /\ sv' = [sv EXCEPT ![w].pc = "cleanup"]
    /\ UNCHANGED <<sdir, dir, inode, rd>>
    /\ UNCHANGED sessVars

\* os.Remove(tempFile) after a failed rename, then the StoragePermission error.
SaveCleanup(w) ==
    LET t == TempPath(sv[w].rec.SessionID) IN
    /\ sv[w].pc = "cleanup"
    /\ dir' = Unlink(dir, t)
    /\ sv' = [sv EXCEPT ![w].pc = "done", ![w].res = "err_rename", ![w].prev = <<>>]
    /\ inode' = Collect(inode, dir', sv', rd)
    /\ UNCHANGED <<sdir, rd>>
    /\ UNCHANGED sessVars

\* The invocation is interrupted (killed) inside SaveSession.
SaveInterrupted(w) ==
    /\ sv[w].pc \in MidSave
    /\ sv' = [sv EXCEPT ![w].pc = "crashed", ![w].fd = 0, ![w].prev = <<>>]
    /\ inode' = Collect(inode, dir, sv', rd)
    /\ UNCHANGED <<sdir, dir, rd>>
    /\ UNCHANGED sessVars

-----------------------------------------------------------------------------
(* Storage.LoadSession, one file-system call per step *)

LoadBegin(id) ==
    /\ rd.pc \in {"idle", "done"}
    /\ rd' = [IdleLoad EXCEPT !.pc = "stat", !.id = id]
    /\ UNCHANGED <<sdir, dir, inode, sv>>
    /\ UNCHANGED sessVars

\* A load that goes on to read the file without the check.
NoStatCheck(exists) == "open"

\* if _, err := os.Stat(sessionFile); os.IsNotExist(err): the error code
\* returned, or "open" to go on.
StatCheck(exists) == IF exists THEN "open" ELSE "SESSION_NOT_FOUND"

\* os.Stat(sessionFile): SessionNotFound when the file does not exist.
LoadStat ==
    /\ rd.pc = "stat"
    /\ rd' = IF StatCheck(FileExists(FinalPath(rd.id))) = "open"
             THEN [rd EXCEPT !.pc = "open", !.cands = {FileContent(FinalPath(rd.id))}]
             ELSE [rd EXCEPT !.pc = "done", !.res = StatCheck(FileExists(FinalPath(rd.id)))]
    /\ UNCHANGED <<sdir, dir, inode, sv>>
    /\ UNCHANGED sessVars

\* os.ReadFile, open(sessionFile): the descriptor names the inode that is the
\* final file now.
LoadOpen ==
    /\ rd.pc = "open"
    /\ rd' = IF FileExists(FinalPath(rd.id))
             THEN [rd EXCEPT !.pc = "read", !.fd = dir[FinalPath(rd.id)]]
             ELSE [rd EXCEPT !.pc = "done", !.res = "STORAGE_PERMISSION"]
    /\ UNCHANGED <<sdir, dir, inode, sv>>
    /\ UNCHANGED sessVars

\* os.ReadFile, read(2): n >= 1 bytes, or end of file.
LoadRead(n) ==
    LET have == Len(rd.buf)
        size == Len(inode[rd.fd]) IN
    /\ rd.pc = "read"
    /\ IF have >= size
       THEN /\ n = 1
            /\ rd' = [rd EXCEPT !.pc = "parse", !.fd = 0]
       ELSE /\ n \in 1..(size - have)
            /\ rd' = [rd EXCEPT !.buf = @ \o SubSeq(inode[rd.fd], have + 1, have + n)]
    /\ inode' = Collect(inode, dir, sv, rd')
    /\ UNCHANGED <<sdir, dir, sv>>
    /\ UNCHANGED sessVars

\* json.Unmarshal: StorageCorrupted when the text does not parse.
LoadParse ==
    /\ rd.pc = "parse"
    /\ rd' = IF Parses(rd.buf)
             THEN [rd EXCEPT !.pc = "done", !.res = "ok", !.session = FromJSON(rd.buf[1][1])]
             ELSE [rd EXCEPT !.pc = "done", !.res = "STORAGE_CORRUPTED"]
    /\ UNCHANGED <<sdir, dir, inode, sv>>
    /\ UNCHANGED sessVars

-----------------------------------------------------------------------------
(* Specifications of the store *)

\* The longest encoded record of this model.
MaxLen == 5

InitStore ==
    /\ sdir \in BOOLEAN
    /\ \/ /\ sdir
          /\ dir = [f \in FileNames |-> IF f = FinalPathOf("Tasks") THEN 1 ELSE 0]
          /\ inode = [i \in Inodes |-> IF i = 1 THEN Marshal(StoredTasks) ELSE <<>>]
       \/ /\ dir = [f \in FileNames |-> 0]
          /\ inode = [i \in Inodes |-> <<>>]
    /\ sv = [w \in Writers |-> IdleSave]
    /\ rd = IdleLoad
    /\ tr = NoTranscripts
    /\ recs = NoRecords
    /\ inv = [p \in Procs |-> IdleInv]
    /\ now = 1
    /\ mon = IdleMon
    /\ sz = NoCalls
    /\ op = IdleOp
    /\ fs = NoFS
    /\ cc = NoCall

SaveSteps(w) ==
    \/ SaveOpenTemp(w)
    \/ \E n \in 1..MaxLen : SaveWrite(w, n)
    \/ SaveWriteFail(w)
    \/ SaveRename(w)
    \/ SaveRenameFail(w)
    \/ SaveCleanup(w)
    \/ SaveInterrupted(w)

LoadSteps ==
    \/ LoadStat
    \/ LoadOpen
    \/ \E n \in 1..MaxLen : LoadRead(n)
    \/ LoadParse

\* Invocations that save one after the other (each begins when the one before
\* has returned or was interrupted), with concurrent loads.
NextSerial ==
    \/ \E r \in SaveChoices : SaveBegin("w1", r)
    \/ \E r \in SaveChoices : SaveInitFail("w1", r)
    \/ SaveSteps("w1")
    \/ \E id \in SessionIds : LoadBegin(id)
    \/ LoadSteps

SpecSerial == InitStore /\ [][NextSerial]_vars

\* Two invocations that each save once, concurrently, and one that loads once.
NextStore ==
    \/ \E w \in Writers, r \in SaveChoices : sv[w].pc = "idle" /\ SaveBegin(w, r)
    \/ \E w \in Writers, r \in SaveChoices : sv[w].pc = "idle" /\ SaveInitFail(w, r)
    \/ \E w \in Writers : SaveSteps(w)
    \/ \E id \in SessionIds : rd.pc = "idle" /\ LoadBegin(id)
    \/ LoadSteps

SpecStore == InitStore /\ [][NextStore]_vars

-----------------------------------------------------------------------------
(* Save followed by load, with no other write (TestSaveAndLoadSession) *)

RoundTripTimes == {GoTime(1, 0), GoTime(1, 7)}
RoundTripTags == {NilSlice, Slice(<<>>), Slice(<<"dev">>)}
RoundTripCustom == {NilMap, GoValue("int", 42), GoValue("float64", 42), GoValue("string", 1)}

RoundTripRecords ==
    {Session("Tasks", "/a", c, T0, m, t, v, "active", <<"session_created">>) :
        c \in {"", "c1"}, m \in RoundTripTimes, t \in RoundTripTags, v \in RoundTripCustom}

NextRoundTrip ==
    \/ \E r \in RoundTripRecords : sv["w1"].pc = "idle" /\ SaveBegin("w1", r)
    \/ SaveOpenTemp("w1")
    \/ \E n \in 1..MaxLen : SaveWrite("w1", n)
    \/ SaveRename("w1")
    \/ sv["w1"].res = "ok" /\ rd.pc = "idle" /\ LoadBegin("Tasks")
    \/ LoadStat
    \/ LoadOpen
    \/ \E n \in 1..MaxLen : LoadRead(n)
    \/ LoadParse

SpecRoundTrip == InitStore /\ [][NextRoundTrip]_vars

-----------------------------------------------------------------------------
(* Claims about the metadata store *)

TasksFile == FinalPathOf("Tasks")
TasksTemp == TempPathOf("Tasks")

\* C1: while invocations save a session one after the other, a concurrent
\* LoadSession of the same id never observes a partially written final file:
\* the final file always holds one whole record, and what the reader returns
\* is the whole record that was stored when it looked or a whole record that
\* a SaveSession installed while it was reading.
C1_ReaderSeesWholeRecord ==
    /\ FileExists(TasksFile) => Parses(FileContent(TasksFile))
    /\ (rd.pc = "done" /\ rd.res # "SESSION_NOT_FOUND") =>
          /\ rd.res = "ok"
          /\ rd.buf \in rd.cands
          /\ \E r \in SaveChoices \cup {StoredTasks} : rd.buf = Marshal(r)

\* A load that ran across a whole save and still returned the record stored
\* before it.
C1_Witness ==
    /\ rd.pc = "done"
    /\ rd.res = "ok"
    /\ rd.buf = Marshal(StoredTasks)
    /\ FileContent(TasksFile) = Marshal(LongRec)
    /\ Cardinality(rd.cands) = 2

\* C2: a SaveSession over a stored record that has not completed its rename,
\* or was interrupted before it, leaves the final file in place with the
\* previously stored record.
C2_InterruptedSaveKeepsOld ==
    [][\A w \in Writers :
          (sv[w].pc \in MidSave /\ sv[w].hadPrev /\ sv'[w].pc \in MidSave \cup {"crashed"})
          => /\ dir'[FinalPathOf(sv[w].rec.SessionID)] # 0
             /\ inode'[dir'[FinalPathOf(sv[w].rec.SessionID)]] = sv[w].prev]_vars

\* A save interrupted after it wrote part of the new record.
C2_Witness ==
    \E w \in Writers :
        /\ sv[w].pc = "crashed"
        /\ sv[w].hadPrev
        /\ FileExists(TasksTemp)
        /\ Len(FileContent(TasksTemp)) = 1
        /\ FileContent(TasksFile) = Marshal(StoredTasks)

BothReturned ==
    \A w \in Writers : sv[w].pc = "done" /\ sv[w].res \in {"ok", "err_rename"}

\* C3: once two concurrent SaveSession calls for the same id have returned,
\* the final file holds one of the two records in full.
C3_LastWriterWins ==
    BothReturned =>
        /\ FileExists(TasksFile)
        /\ \E w \in Writers : FileContent(TasksFile) = Marshal(sv[w].rec)

\* Go equality of two time.Time values as instants (Time.Equal).
SameInstant(a, b) == a.wall = b.wall

SameExceptTimesAndCustom(a, b) ==
    /\ a.SessionID = b.SessionID
    /\ a.Path = b.Path
    /\ a.WorkingDirectory = b.WorkingDirectory
    /\ a.ClaudeSessionID = b.ClaudeSessionID
    /\ a.Tags = b.Tags
    /\ a.State = b.State
    /\ a.StateHistory = b.StateHistory
    /\ SameInstant(a.Created, b.Created)
    /\ SameInstant(a.LastModified, b.LastModified)

Loaded == rd.pc = "done" /\ rd.res = "ok" /\ sv["w1"].res = "ok"

AsDecoded(v) == IF v.kind = "int" THEN GoValue("float64", v.n) ELSE v

-----------------------------------------------------------------------------
(* internal/claude: the transcript scanner and the diff of two listings *)

RECURSIVE SortedSeq(_)
\* The elements of a set of ids in ascending order.
SortedSeq(S) ==
    IF S = {} THEN <<>>
    ELSE LET m == CHOOSE x \in S : \A y \in S : x <= y IN <<m>> \o SortedSeq(S \ {m})

Range(q) == {q[i] : i \in 1..Len(q)}

\* DiscoverExistingSessions: the ids of the .jsonl files of the transcript
\* directory of workingDir, in os.ReadDir (file name) order; empty when the
\* directory has no transcripts.
DiscoverExistingSessions(workingDir) ==
    SortedSeq({t \in TranscriptIds : tr[EncodePath(workingDir)][t].exists})

\* An id Claude can give a new transcript: ids are UUIDs, never used twice.
FreshID(d, t) == ~tr[d][t].exists /\ ~tr[d][t].gone

\* HasSession: os.Stat of <id>.jsonl in the transcript directory.
HasSession(sessionID, workingDir) ==
    /\ sessionID # NoID
    /\ tr[EncodePath(workingDir)][sessionID].exists

\* The inner loop of the diff: session == oldSession for some oldSession.
Found(session, beforeSessions) ==
    \E i \in 1..Len(beforeSessions) : beforeSessions[i] = session

\* The first listed id, new or not.
FirstListed(afterSessions, beforeSessions) ==
    IF afterSessions = <<>> THEN NoID ELSE Head(afterSessions)

RECURSIVE LastNew(_, _)
\* The last id of afterSessions that is not in beforeSessions.
LastNew(afterSessions, beforeSessions) ==
    IF afterSessions = <<>> THEN NoID
    ELSE LET l == afterSessions[Len(afterSessions)] IN
         IF ~Found(l, beforeSessions) THEN l
         ELSE LastNew(SubSeq(afterSessions, 1, Len(afterSessions) - 1), beforeSessions)

RECURSIVE FirstNew(_, _)
\* The outer loop of the diff: the first id of afterSessions that is not in
\* beforeSessions, "" when there is none.
FirstNew(afterSessions, beforeSessions) ==
    IF afterSessions = <<>> THEN NoID
    ELSE IF ~Found(Head(afterSessions), beforeSessions) THEN Head(afterSessions)
    ELSE FirstNew(Tail(afterSessions), beforeSessions)

-----------------------------------------------------------------------------
(* internal/storage as the session manager uses it: one record per file,   *)
(* read and replaced as a whole                                            *)

SessionExists(f) == recs[f].SessionID # ""

\* Storage.CreateSession: the minimal record, not yet written.
CreateSession(sessionID, projectPath, t) ==
    Session(sessionID, projectPath, NoID, t, t, NilSlice, NilMap, "", <<>>)

TimeNow == GoTime(now, 0)

-----------------------------------------------------------------------------
(* internal/session: Manager.CreateOrResumeSession *)

WorkingDirectory(p) == inv[p].session.WorkingDirectory

\* SessionExists, then LoadSession or CreateSession.
CreateOrResumeSession(p, sessionName, projectPath) ==
    LET f == SessionFile(projectPath, sessionName)
        s == IF SessionExists(f) THEN recs[f] ELSE CreateSession(sessionName, projectPath, TimeNow) IN
    /\ inv[p].pc = "idle"
    /\ inv' = [inv EXCEPT ![p] = [IdleInv EXCEPT !.pc = "check", !.name = sessionName,
                                                  !.project = projectPath, !.session = s,
                                                  !.loaded = recs[f]]]
    /\ now' = now + 1
    /\ UNCHANGED <<tr, recs, mon>>
    /\ UNCHANGED storeVars

\* HasSession on the stored Claude session id decides whether to start fresh.
CheckClaudeSession(p) ==
    LET s == inv[p].session
        shouldStartFreshClaude == ~HasSession(s.ClaudeSessionID, s.WorkingDirectory) IN
    /\ inv[p].pc = "check"
    /\ inv' = [inv EXCEPT ![p].fresh = shouldStartFreshClaude,
                          ![p].pc = IF shouldStartFreshClaude THEN "setup" ELSE "save"]
    /\ UNCHANGED <<tr, recs, now, mon>>
    /\ UNCHANGED storeVars

\* A return value that reports a launch in every call.
AlwaysExecuted(shouldStartFreshClaude) == TRUE

\* return session, shouldStartFreshClaude, nil
ClaudeWasExecuted(shouldStartFreshClaude) == shouldStartFreshClaude

\* The new access times and SaveSession, then return.
SaveAndReturn(p) ==
    LET s == [inv[p].session EXCEPT !.LastModified = TimeNow] IN
    /\ inv[p].pc = "save"
    /\ recs' = [recs EXCEPT ![SessionFile(inv[p].project, s.SessionID)] = s]
    /\ inv' = [inv EXCEPT ![p].session = s, ![p].pc = "done", ![p].res = "ok",
                          ![p].ret = ClaudeWasExecuted(inv[p].fresh)]
    /\ now' = now + 1
    /\ UNCHANGED <<tr, mon>>
    /\ UNCHANGED storeVars

-----------------------------------------------------------------------------
(* Blocking discovery: Client.StartFreshAndDiscoverSessionID *)

\* beforeSessions: the baseline listing.
DiscoverBefore(p) ==
    /\ inv[p].pc = "setup"
    /\ inv' = [inv EXCEPT ![p].before = DiscoverExistingSessions(WorkingDirectory(p)),
                          ![p].pc = "run"]
    /\ UNCHANGED <<tr, recs, now, mon>>
    /\ UNCHANGED storeVars

\* DiscoverExistingSessions returns an error (os.ReadDir fails): returned as is.
DiscoverFail(p) ==
    /\ inv[p].pc \in {"setup", "after"}
    /\ inv' = [inv EXCEPT ![p].pc = "done", ![p].res = "scan_error"]
    /\ UNCHANGED <<tr, recs, now, mon>>
    /\ UNCHANGED storeVars

\* claude --print KAMUI_INIT_MESSAGE runs to its end; it has written a new
\* transcript, under an id of its own choice, in the transcript directory.
ClaudePrint(p, t) ==
    LET d == EncodePath(WorkingDirectory(p)) IN
    /\ inv[p].pc = "run"
    /\ FreshID(d, t)
    /\ tr' = [tr EXCEPT ![d][t] = Transcript(<<InitLine, ReplyLine>>)]
    /\ inv' = [inv EXCEPT ![p].pc = "after"]
    /\ UNCHANGED <<recs, now, mon>>
    /\ UNCHANGED storeVars

\* claude --print exits with status 0 and no transcript is in the directory
\* the scanner reads (not written yet, or written elsewhere).
ClaudePrintNoTranscript(p) ==
    /\ inv[p].pc = "run"
    /\ inv' = [inv EXCEPT ![p].pc = "after"]
    /\ UNCHANGED <<tr, recs, now, mon>>
    /\ UNCHANGED storeVars

\* cmd.Run returns an error: ClaudeStartFailed, "failed to start Claude".
ClaudePrintFail(p) ==
    /\ inv[p].pc = "run"
    /\ inv' = [inv EXCEPT ![p].pc = "done", ![p].res = "start_failed"]
    /\ UNCHANGED <<tr, recs, now, mon>>
    /\ UNCHANGED storeVars

\* afterSessions and the diff: ClaudeStartFailed, "failed to discover new
\* Claude session ID", when no id is new.
DiscoverAfter(p) ==
    LET afterSessions == DiscoverExistingSessions(WorkingDirectory(p))
        newSessionID == FirstNew(afterSessions, inv[p].before) IN
    /\ inv[p].pc = "after"
    /\ inv' = [inv EXCEPT ![p].after = afterSessions, ![p].diffed = TRUE,
                          ![p].newID = newSessionID,
                          ![p].pc = IF newSessionID = NoID THEN "done" ELSE "cleanup",
                          ![p].res = IF newSessionID = NoID THEN "discovery_failed" ELSE @]
    /\ UNCHANGED <<tr, recs, now, mon>>
    /\ UNCHANGED storeVars

\* An error of cleanupInitMessage that ends the discovery with that error.
FailOnCleanupError(err) == IF err = "none" THEN "store" ELSE "failed"

\* if err := c.cleanupInitMessage(...); err != nil { warning }: the
\* discovery goes on to return the id whatever err is.
AfterCleanup(err) == "store"

\* cleanupInitMessage on the discovered transcript.
CleanupInitMessage(p, fault) ==
    LET d == EncodePath(WorkingDirectory(p))
        t == inv[p].newID
        r == cleanupInitMessage(tr[d][t], fault) IN
    /\ inv[p].pc = "cleanup"
    /\ tr' = [tr EXCEPT ![d][t] = r.file]
    /\ inv' = [inv EXCEPT ![p].pc = IF AfterCleanup(r.err) = "store" THEN "store" ELSE "done",
                          ![p].res = IF AfterCleanup(r.err) = "store" THEN @ ELSE "cleanup_failed",
                          ![p].cleanupErr = r.err]
    /\ UNCHANGED <<recs, now, mon>>
    /\ UNCHANGED storeVars

\* setupClaudeSession: session.Claude.SessionID = the discovered id.
StoreDiscoveredID(p) ==
    /\ inv[p].pc = "store"
    /\ inv' = [inv EXCEPT ![p].session.ClaudeSessionID = inv[p].newID, ![p].pc = "save"]
    /\ UNCHANGED <<tr, recs, now, mon>>
    /\ UNCHANGED storeVars

\* The state before any invocation: no session records; the transcript
\* directory of PathA is empty or holds an older transcript.
InitSession ==
    /\ sdir = FALSE
    /\ dir = [f \in FileNames |-> 0]
    /\ inode = [i \in Inodes |-> <<>>]
    /\ sv = [w \in Writers |-> IdleSave]
    /\ rd = IdleLoad
    /\ tr \in {NoTranscripts,
               [NoTranscripts EXCEPT ![EncodePath(PathA)][2] = Transcript(<<ReplyLine>>)]}
    /\ recs = NoRecords
    /\ inv = [p \in Procs |-> IdleInv]
    /\ now = 1
    /\ mon = IdleMon
    /\ sz = NoCalls
    /\ op = IdleOp
    /\ fs = NoFS
    /\ cc = NoCall

\* Two invocations of kam, each with a session name in a project, running
\* the blocking discovery; their steps interleave.
NextBlocking ==
    \/ \E p \in Procs, n \in Names, w \in Projects : CreateOrResumeSession(p, n, w)
    \/ \E p \in Procs : CheckClaudeSession(p)
    \/ \E p \in Procs : DiscoverBefore(p)
    \/ \E p \in Procs : DiscoverFail(p)
    \/ \E p \in Procs, t \in TranscriptIds : ClaudePrint(p, t)
    \/ \E p \in Procs : ClaudePrintNoTranscript(p)
    \/ \E p \in Procs : ClaudePrintFail(p)
    \/ \E p \in Procs : DiscoverAfter(p)
    \/ \E p \in Procs, fault \in Faults : CleanupInitMessage(p, fault)
    \/ \E p \in Procs : StoreDiscoveredID(p)
    \/ \E p \in Procs : SaveAndReturn(p)

SpecBlocking == InitSession /\ [][NextBlocking]_vars

-----------------------------------------------------------------------------
(* Claims about blocking discovery *)

NewIDs(p) == Range(inv[p].after) \ Range(inv[p].before)

\* C5: once blocking discovery has both listings, the id it returns is in
\* `after` and not in `before`, and it fails with the discovery error
\* exactly when `after` has no id outside `before`.
C5_DiscoveryReturnsNewID ==
    \A p \in Procs : inv[p].diffed =>
        /\ (inv[p].res = "discovery_failed") <=> (NewIDs(p) = {})
        /\ NewIDs(p) # {} => inv[p].newID \in NewIDs(p)
        /\ NewIDs(p) = {} => inv[p].newID = NoID

\* One invocation found a new id next to an older transcript, the other
\* failed because its two listings were equal.
C5_Witness ==
    \E p, q \in Procs :
        /\ inv[p].diffed /\ inv[p].before # <<>> /\ inv[p].newID # NoID
        /\ inv[p].newID \notin Range(inv[p].before)
        /\ inv[q].diffed /\ inv[q].res = "discovery_failed" /\ inv[q].after = inv[q].before
        /\ inv[q].before # <<>>

FirstNewIndex(p) ==
    CHOOSE k \in 1..Len(inv[p].after) :
        /\ inv[p].after[k] \notin Range(inv[p].before)
        /\ \A j \in 1..(k - 1) : inv[p].after[j] \in Range(inv[p].before)

\* C6: with several new ids, discovery returns the one that comes first in
\* the listing `after`, and two runs with the same two listings return the
\* same id.
C6_FirstInScannerOrder ==
    /\ \A p \in Procs : (inv[p].diffed /\ NewIDs(p) # {}) =>
           inv[p].newID = inv[p].after[FirstNewIndex(p)]
    /\ \A p, q \in Procs :
           (inv[p].diffed /\ inv[q].diffed /\ inv[p].before = inv[q].before
              /\ inv[p].after = inv[q].after) => inv[p].newID = inv[q].newID

\* A run whose second listing had two new ids after an old one.
C6_Witness ==
    \E p \in Procs :
        /\ inv[p].diffed
        /\ Cardinality(NewIDs(p)) >= 2
        /\ inv[p].before # <<>>
        /\ inv[p].newID = inv[p].after[FirstNewIndex(p)]
        /\ inv[p].newID # inv[p].after[Len(inv[p].after)]

\* C7: two session names of one working directory are never bound to the
\* same transcript id, however the steps of their runs interleave.
C7_DistinctNamesDistinctTranscripts ==
    \A f, g \in SessionFiles :
        (/\ f # g
         /\ SessionExists(f) /\ SessionExists(g)
         /\ recs[f].WorkingDirectory = recs[g].WorkingDirectory
         /\ recs[f].ClaudeSessionID # NoID)
        => recs[f].ClaudeSessionID # recs[g].ClaudeSessionID

-----------------------------------------------------------------------------
(* The monitor variant: Manager.setupClaudeSession launches Claude with a   *)
(* monitor subprocess (kam monitor <name> <workingDir>) and reloads the     *)
(* record when Claude has exited                                            *)

\* LaunchClaudeInteractively: spawnMonitorProcess, then Claude in the
\* foreground.
LaunchClaudeInteractively(p) ==
    /\ inv[p].pc = "setup"
    /\ inv' = [inv EXCEPT ![p].pc = "claude", ![p].monitor = "spawned",
                          ![p].timer = "armed"]
    /\ UNCHANGED <<tr, recs, now, mon>>
    /\ UNCHANGED storeVars

\* The monitor subprocess takes its baseline listing.
MonitorBaseline(p) ==
    /\ inv[p].monitor = "spawned"
    /\ inv' = [inv EXCEPT ![p].before = DiscoverExistingSessions(WorkingDirectory(p)),
                          ![p].monitor = "polling"]
    /\ UNCHANGED <<tr, recs, now, mon>>
    /\ UNCHANGED storeVars

\* The interactive Claude writes its transcript, under an id of its own
\* choice, in the transcript directory of cmd.Dir.
ClaudeInteractive(p, t) ==
    LET d == EncodePath(WorkingDirectory(p)) IN
    /\ inv[p].pc = "claude"
    /\ inv[p].made = NoID
    /\ FreshID(d, t)
    /\ tr' = [tr EXCEPT ![d][t] = Transcript(<<UserLine, ReplyLine>>)]
    /\ inv' = [inv EXCEPT ![p].made = t]
    /\ UNCHANGED <<recs, now, mon>>
    /\ UNCHANGED storeVars

\* The monitor subprocess has found a new id and saves the binding in the
\* record of the session name.
MonitorBinds(p) ==
    LET f == SessionFile(WorkingDirectory(p), inv[p].name)
        id == FirstNew(DiscoverExistingSessions(WorkingDirectory(p)), inv[p].before)
        base == IF SessionExists(f) THEN recs[f]
                ELSE CreateSession(inv[p].name, WorkingDirectory(p), TimeNow) IN
    /\ inv[p].monitor = "polling"
    /\ id # NoID
    /\ recs' = [recs EXCEPT ![f] = [base EXCEPT !.ClaudeSessionID = id]]
    /\ inv' = [inv EXCEPT ![p].monitor = "done", ![p].bound = id]
    /\ UNCHANGED <<tr, now, mon>>
    /\ UNCHANGED storeVars

\* The monitor subprocess ends without a binding: its timeout, or the kill
\* one minute after it was spawned.
MonitorEnds(p) ==
    /\ inv[p].monitor \in {"spawned", "polling"}
    /\ inv' = [inv EXCEPT ![p].monitor = "done"]
    /\ UNCHANGED <<tr, recs, now, mon>>
    /\ UNCHANGED storeVars

\* cmd.Run returns nil: Claude has exited.
ClaudeExits(p) ==
    /\ inv[p].pc = "claude"
    /\ inv' = [inv EXCEPT ![p].pc = "reload"]
    /\ UNCHANGED <<tr, recs, now, mon>>
    /\ UNCHANGED storeVars

\* An error value is the chain of its messages and codes, outermost first;
\* nil is the empty chain.
NilError == <<>>
ClaudeStartFailed == <<"CLAUDE_START_FAILED">>
SpawnFailed == <<"failed to spawn monitor process", "exec">>
SessionNotFound == <<"SESSION_NOT_FOUND">>
StoragePermission == <<"STORAGE_PERMISSION">>
UserHomeDirError == <<"$HOME is not defined">>

\* fmt.Errorf("failed to setup Claude session: %w", err)
SetupError(err) == <<"failed to setup Claude session">> \o err

\* cmd.Run returns an error: ClaudeStartFailed, "Claude session ended with
\* error"; setupClaudeSession returns it and CreateOrResumeSession returns
\* it wrapped.
ClaudeExitsWithError(p) ==
    /\ inv[p].pc = "claude"
    /\ inv' = [inv EXCEPT ![p].pc = "done", ![p].res = "start_failed",
                          ![p].failed = Append(@, ClaudeStartFailed),
                          ![p].err = SetupError(ClaudeStartFailed)]
    /\ UNCHANGED <<tr, recs, now, mon>>
    /\ UNCHANGED storeVars

\* setupClaudeSession: LoadSession(session.SessionID); when it succeeds,
\* session.Claude = updatedSession.Claude; when it fails (no record is
\* stored under the name) the error is dropped.
ReloadSession(p) ==
    LET f == SessionFile(inv[p].project, inv[p].session.SessionID) IN
    /\ inv[p].pc = "reload"
    /\ inv' = [inv EXCEPT ![p].pc = "save",
                          ![p].session.ClaudeSessionID =
                              IF SessionExists(f) THEN recs[f].ClaudeSessionID ELSE @,
                          ![p].failed =
                              IF SessionExists(f) THEN @ ELSE Append(@, SessionNotFound)]
    /\ UNCHANGED <<tr, recs, now, mon>>
    /\ UNCHANGED storeVars

\* kam <name> run in a project, and then kam <name> run again, in the same
\* or in another project, when the first run has returned.
NextProjects ==
    \/ \E n \in Names, w \in Projects : CreateOrResumeSession("p1", n, w)
    \/ \E n \in Names, w \in Projects : inv["p1"].pc = "done" /\ CreateOrResumeSession("p2", n, w)
    \/ \E p \in Procs : CheckClaudeSession(p)
    \/ \E p \in Procs : LaunchClaudeInteractively(p)
    \/ \E p \in Procs : MonitorBaseline(p)
    \/ \E p \in Procs, t \in TranscriptIds : ClaudeInteractive(p, t)
    \/ \E p \in Procs : MonitorBinds(p)
    \/ \E p \in Procs : MonitorEnds(p)
    \/ \E p \in Procs : ClaudeExits(p)
    \/ \E p \in Procs : ClaudeExitsWithError(p)
    \/ \E p \in Procs : ReloadSession(p)
    \/ \E p \in Procs : SaveAndReturn(p)

SpecProjects == InitSession /\ [][NextProjects]_vars

\* The transcript a session record is bound to.
BoundTranscript(s) == <<EncodePath(s.WorkingDirectory), s.ClaudeSessionID>>

\* C8: when kam <name> has run in project A and then runs in project B, the
\* run for B works on a record of project B (it has not loaded A's record),
\* and when it has returned both projects have their record under that name
\* and the two sessions are bound to different transcripts.
C8_SameNameTwoProjectsIndependent ==
    (/\ inv["p1"].res = "ok"
     /\ inv["p2"].pc # "idle"
     /\ inv["p2"].name = inv["p1"].name
     /\ inv["p2"].project # inv["p1"].project)
    => /\ inv["p2"].loaded = NoRecord
       /\ inv["p2"].session.Path = inv["p2"].project
       /\ inv["p2"].res = "ok" =>
            /\ \A q \in Procs : \E f \in SessionFiles :
                   recs[f].SessionID = inv[q].name /\ recs[f].Path = inv[q].project
            /\ BoundTranscript(inv["p1"].session) # BoundTranscript(inv["p2"].session)

-----------------------------------------------------------------------------
(* Polling discovery: Client.monitorForSession(workingDir, beforeSessions,  *)
(* timeout).  Time is counted in seconds since start.                       *)

\* A loop condition that lets a tick begin when the timeout has elapsed.
PollPastDeadline(elapsed, timeout) == elapsed <= timeout

\* The loop condition: time.Since(start) < timeout.
KeepPolling(elapsed, timeout) == elapsed < timeout

\* A scan error that ends the call.
AbortOnScanError(m) == [m EXCEPT !.pc = "done", !.res = "scan_error"]

\* err != nil: time.Sleep(1 * time.Second); continue.
OnScanError(m) == [m EXCEPT !.pc = "sleep"]

ScanOK(ids) == [ok |-> TRUE, ids |-> ids]
ScanFailed == [ok |-> FALSE, ids |-> <<>>]

\* The head of the loop.
MonitorLoop ==
    /\ mon.pc = "check"
    /\ mon' = IF KeepPolling(mon.elapsed, Timeout)
              THEN [mon EXCEPT !.pc = "scan"]
              ELSE [mon EXCEPT !.pc = "done", !.res = "timeout"]
    /\ UNCHANGED <<tr, recs, inv, now>>
    /\ UNCHANGED storeVars

\* A poll tick that writes the id it finds into the record of the name itself.
MonitorScanAndBind ==
    LET afterSessions == DiscoverExistingSessions(mon.workingDir)
        sessionID == FirstNew(afterSessions, mon.before)
        f == SessionFile(mon.workingDir, "Tasks") IN
    /\ mon.pc = "scan"
    /\ mon' = IF sessionID # NoID
              THEN [mon EXCEPT !.pc = "done", !.res = "ok", !.id = sessionID,
                               !.hist = Append(@, ScanOK(afterSessions))]
              ELSE [mon EXCEPT !.pc = "sleep", !.hist = Append(@, ScanOK(afterSessions))]
    /\ recs' = IF sessionID # NoID
               THEN [recs EXCEPT ![f] = CreateSession("Tasks", mon.workingDir, TimeNow),
                                 ![f].ClaudeSessionID = sessionID]
               ELSE recs
    /\ UNCHANGED <<tr, inv, now>>
    /\ UNCHANGED storeVars

\* A poll tick whose scan succeeds: return the first new id, or sleep.
MonitorScan ==
    LET afterSessions == DiscoverExistingSessions(mon.workingDir)
        sessionID == FirstNew(afterSessions, mon.before)
        m == [mon EXCEPT !.hist = Append(@, ScanOK(afterSessions))] IN
    /\ mon.pc = "scan"
    /\ mon' = IF sessionID # NoID
              THEN [m EXCEPT !.pc = "done", !.res = "ok", !.id = sessionID]
              ELSE [m EXCEPT !.pc = "sleep"]
    /\ UNCHANGED <<tr, recs, inv, now>>
    /\ UNCHANGED storeVars

\* A poll tick whose scan fails.
MonitorScanFail ==
    /\ mon.pc = "scan"
    /\ mon' = OnScanError([mon EXCEPT !.hist = Append(@, ScanFailed)])
    /\ UNCHANGED <<tr, recs, inv, now>>
    /\ UNCHANGED storeVars

\* time.Sleep(1 * time.Second)
MonitorSleep ==
    /\ mon.pc = "sleep"
    /\ mon' = [mon EXCEPT !.pc = "check", !.elapsed = @ + 1]
    /\ UNCHANGED <<tr, recs, inv, now>>
    /\ UNCHANGED storeVars

\* Claude writes a transcript in the watched directory while the monitor
\* runs; early records that a new id was there before the timeout elapsed.
ClaudeWritesTranscript(t) ==
    LET d == EncodePath(mon.workingDir) IN
    /\ mon.pc \in {"check", "scan", "sleep"}
    /\ FreshID(d, t)
    /\ tr' = [tr EXCEPT ![d][t] = Transcript(<<UserLine>>)]
    /\ mon' = [mon EXCEPT !.early = @ \/ mon.elapsed < Timeout]
    /\ UNCHANGED <<recs, inv, now>>
    /\ UNCHANGED storeVars

\* monitorForSession has been called for PathA with the listing of that
\* moment as beforeSessions.
InitPoll ==
    /\ sdir = FALSE
    /\ dir = [f \in FileNames |-> 0]
    /\ inode = [i \in Inodes |-> <<>>]
    /\ sv = [w \in Writers |-> IdleSave]
    /\ rd = IdleLoad
    /\ tr \in {NoTranscripts,
               [NoTranscripts EXCEPT ![EncodePath(PathA)][2] = Transcript(<<ReplyLine>>)]}
    /\ recs = NoRecords
    /\ inv = [p \in Procs |-> IdleInv]
    /\ now = 1
    /\ mon = [IdleMon EXCEPT !.pc = "check", !.workingDir = PathA,
                             !.before = SortedSeq({t \in TranscriptIds :
                                                     tr[EncodePath(PathA)][t].exists})]
    /\ sz = NoCalls
    /\ op = IdleOp
    /\ fs = NoFS
    /\ cc = NoCall

NextPoll ==
    \/ MonitorLoop
    \/ MonitorScan
    \/ MonitorScanFail
    \/ MonitorSleep
    \/ \E t \in TranscriptIds : ClaudeWritesTranscript(t)

SpecPoll == InitPoll /\ [][NextPoll]_vars

-----------------------------------------------------------------------------
(* Claims about polling discovery *)

ListedNew(scan) == scan.ok /\ Range(scan.ids) \ Range(mon.before) # {}

LastScan(m) == m.hist[Len(m.hist)]

-----------------------------------------------------------------------------
(* Claims about Manager.CreateOrResumeSession *)

\* The invocation found no stored record and built one with CreateSession.
BuiltNew(p) == inv[p].pc # "idle" /\ inv[p].loaded = NoRecord

\* C11: for a session id with no stored record, the record that
\* CreateOrResumeSession builds is Active with one stateHistory entry and an
\* empty Claude.SessionID, and when the monitor has bound a transcript the
\* record persisted at return has a non-empty Claude.SessionID and a
\* lastModified later than its creation time.
C11_NewRecordActiveThenBound ==
    \A p \in Procs : BuiltNew(p) =>
        /\ inv[p].session.State = "active"
        /\ Len(inv[p].session.StateHistory) = 1
        /\ inv[p].pc = "check" => inv[p].session.ClaudeSessionID = NoID
        /\ (inv[p].res = "ok" /\ inv[p].bound # NoID) =>
              /\ inv[p].session.ClaudeSessionID # NoID
              /\ inv[p].session.LastModified.wall > inv[p].session.Created.wall

-----------------------------------------------------------------------------
(* One call of CreateOrResumeSession("Tasks") in the monitor variant, over  *)
(* every kind of stored record                                             *)

BoundTo(t) == Session("Tasks", PathA, t, T0, T0, NilSlice, NilMap, "", <<>>)
TasksA == SessionFile(PathA, "Tasks")

\* No record; a record with no binding; a record bound to transcript 2,
\* which is there; a record bound to transcript 2, which has been deleted.
InitResume ==
    /\ sdir = FALSE
    /\ dir = [f \in FileNames |-> 0]
    /\ inode = [i \in Inodes |-> <<>>]
    /\ sv = [w \in Writers |-> IdleSave]
    /\ rd = IdleLoad
    /\ \/ /\ recs = NoRecords
          /\ tr = NoTranscripts
       \/ /\ recs = [NoRecords EXCEPT ![TasksA] = BoundTo(NoID)]
          /\ tr = NoTranscripts
       \/ /\ recs = [NoRecords EXCEPT ![TasksA] = BoundTo(2)]
          /\ tr = [NoTranscripts EXCEPT ![EncodePath(PathA)][2] = Transcript(<<UserLine, ReplyLine>>)]
       \/ /\ recs = [NoRecords EXCEPT ![TasksA] = BoundTo(2)]
          /\ tr = [NoTranscripts EXCEPT ![EncodePath(PathA)][2] = DeletedTranscript]
    /\ inv = [p \in Procs |-> IdleInv]
    /\ now = 1
    /\ mon = IdleMon
    /\ sz = NoCalls
    /\ op = IdleOp
    /\ fs = NoFS
    /\ cc = NoCall

NextResume ==
    \/ \E w \in Projects : CreateOrResumeSession("p1", "Tasks", w)
    \/ CheckClaudeSession("p1")
    \/ LaunchClaudeInteractively("p1")
    \/ MonitorBaseline("p1")
    \/ \E t \in TranscriptIds : ClaudeInteractive("p1", t)
    \/ MonitorBinds("p1")
    \/ MonitorEnds("p1")
    \/ ClaudeExits("p1")
    \/ ClaudeExitsWithError("p1")
    \/ ReloadSession("p1")
    \/ SaveAndReturn("p1")

SpecResume == InitResume /\ [][NextResume]_vars

Persisted(p) == recs[SessionFile(inv[p].project, inv[p].name)]

\* C12: when the stored record is bound to X and HasSession(X) is false,
\* a CreateOrResumeSession that returns has persisted a record whose
\* Claude.SessionID is non-empty and different from X.
C12_MissingTranscriptRebound ==
    \A p \in Procs :
        (/\ inv[p].res = "ok"
         /\ inv[p].loaded.ClaudeSessionID # NoID
         /\ inv[p].fresh)
        => /\ Persisted(p).ClaudeSessionID # NoID
           /\ Persisted(p).ClaudeSessionID # inv[p].loaded.ClaudeSessionID

\* The binding of the record the call loaded is to a transcript that is there.
BindingConfirmed(p) ==
    HasSession(inv[p].loaded.ClaudeSessionID, inv[p].loaded.WorkingDirectory)

\* Claude was launched in this call.
Launched(p) == inv[p].monitor # "none"

-----------------------------------------------------------------------------
(* cleanupInitMessage as a function of the transcript's bytes              *)

MaxLines == 3
MaxRuns == 2

\* The lines a transcript is made of here: the init message in its nested
\* and in its flat form, an assistant line whose content is the init
\* message, a user line that starts with it, a truncated line that mentions
\* it, an ordinary user line, a line longer than the scanner's buffer, and
\* the empty line.
FlatInitLine == Text(TRUE, "user", Sentinel, "", FALSE)
AssistantEcho == Text(TRUE, "assistant", Sentinel, "", FALSE)
ResemblingLine == Text(TRUE, "user", "KAMUI_INIT_MESSAGE please", "", FALSE)
TruncatedLine == Text(FALSE, "user", Sentinel, "", FALSE)
LongLine == Text(TRUE, "assistant", "reply", "", TRUE)
LineBodies ==
    {<<InitLine>>, <<FlatInitLine>>, <<AssistantEcho>>, <<ResemblingLine>>,
     <<TruncatedLine>>, <<UserLine>>, <<LongLine>>, <<>>}

RECURSIVE FileBytes(_, _, _)
\* The bytes of a file with these line bodies: every line ends with a line
\* feed (after a carriage return when crlf), the last one only when
\* finalNewline.
FileBytes(bodies, crlf, finalNewline) ==
    IF bodies = <<>> THEN <<>>
    ELSE IF Len(bodies) = 1 /\ ~finalNewline THEN Head(bodies)
    ELSE Head(bodies) \o (IF crlf THEN <<CR>> ELSE <<>>) \o <<LF>>
         \o FileBytes(Tail(bodies), crlf, finalNewline)

FileContents ==
    {FileBytes(bodies, crlf, finalNewline) :
        bodies \in UNION {[1..n -> LineBodies] : n \in 0..MaxLines},
        crlf \in BOOLEAN, finalNewline \in BOOLEAN}

SanitizedDir == EncodePath(PathA)
SanitizedFile == tr[SanitizedDir][1]

\* One transcript, absent or with any of the contents, and no call yet.
InitSanitize ==
    /\ sdir = FALSE
    /\ dir = [f \in FileNames |-> 0]
    /\ inode = [i \in Inodes |-> <<>>]
    /\ sv = [w \in Writers |-> IdleSave]
    /\ rd = IdleLoad
    /\ \E f \in {NoTranscript} \cup
                {[exists |-> TRUE, gone |-> FALSE, tmp |-> FALSE, data |-> c] :
                     c \in FileContents} :
          /\ tr = [NoTranscripts EXCEPT ![SanitizedDir][1] = f]
          /\ sz = [NoCalls EXCEPT !.orig = f]
    /\ op = IdleOp
    /\ fs = NoFS
    /\ cc = NoCall
    /\ recs = NoRecords
    /\ inv = [p \in Procs |-> IdleInv]
    /\ now = 1
    /\ mon = IdleMon

\* c.cleanupInitMessage(workingDir, sessionID) on the transcript.
Sanitize ==
    LET r == cleanupInitMessage(SanitizedFile, "none") IN
    /\ sz.runs < MaxRuns
    /\ tr' = [tr EXCEPT ![SanitizedDir][1] = r.file]
    /\ sz' = [sz EXCEPT !.runs = @ + 1, !.errs = Append(@, r.err),
                        !.outs = Append(@, r.file)]
    /\ UNCHANGED <<sdir, dir, inode, sv, rd, recs, inv, now, mon, op, fs, cc>>

NextSanitize == Sanitize
SpecSanitize == InitSanitize /\ [][NextSanitize]_vars

Lines(f) == ScanLines(f.data, <<>>)

\* The line is the init message: a JSON object of type "user" whose nested
\* or flat content is the text exactly.
IsSentinelLine(line) ==
    /\ Len(line) = 1
    /\ line[1].k = "text"
    /\ line[1].parses
    /\ line[1].type = "user"
    /\ (line[1].nested = "KAMUI_INIT_MESSAGE" \/ line[1].content = "KAMUI_INIT_MESSAGE")

SentinelIndexes(lines) == {i \in 1..Len(lines) : IsSentinelLine(lines[i])}

\* lines with the first init message taken out, or lines when there is none
WithoutFirstSentinel(lines) ==
    IF SentinelIndexes(lines) = {} THEN lines
    ELSE LET i == CHOOSE i \in SentinelIndexes(lines) :
                      \A j \in SentinelIndexes(lines) : i <= j IN
         SubSeq(lines, 1, i - 1) \o SubSeq(lines, i + 1, Len(lines))

\* C14: after cleanupInitMessage on an existing transcript with lines L,
\* the transcript's lines are L without the first line that is the init
\* message, the other lines in their order; later init messages stay.
C14_RemovesFirstSentinelOnly ==
    (sz.runs >= 1 /\ sz.orig.exists) =>
        Lines(sz.outs[1]) = WithoutFirstSentinel(Lines(sz.orig))


\* C15: when no line of an existing transcript is the init message,
\* cleanupInitMessage leaves the file's bytes as they were, whatever the
\* content, a last line without a line feed included.
C15_NoSentinelFileUnchanged ==
    (sz.runs >= 1 /\ sz.orig.exists /\ SentinelIndexes(Lines(sz.orig)) = {}) =>
        sz.outs[1].data = sz.orig.data

Protected(line) ==
    \/ ~(Len(line) = 1 /\ line[1].k = "text" /\ line[1].parses)
    \/ line[1].type # "user"
    \/ (line[1].nested # "KAMUI_INIT_MESSAGE" /\ line[1].content # "KAMUI_INIT_MESSAGE")

\* C17: cleanupInitMessage removes no line that fails to parse, no line of
\* another type whose content is the init message, and no user line whose
\* content only resembles it: these lines are in the file afterwards, each
\* as it was and in the same order.
C17_ProtectedLinesKept ==
    (sz.runs >= 1 /\ sz.orig.exists) =>
        SelectSeq(Lines(sz.outs[1]), Protected) = SelectSeq(Lines(sz.orig), Protected)

\* A call rewrote a transcript that holds the init message, an assistant
\* line with the same content and a user line that resembles it.
C17_Witness ==
    /\ sz.runs >= 1
    /\ sz.errs[1] = "none"
    /\ \E i, j, k \in 1..Len(Lines(sz.orig)) :
          /\ Lines(sz.orig)[i] = <<InitLine>>
          /\ Lines(sz.orig)[j] = <<AssistantEcho>>
          /\ Lines(sz.orig)[k] = <<ResemblingLine>>
    /\ Len(Lines(sz.outs[1])) = 2

\* C18: cleanupInitMessage on a transcript that does not exist returns the
\* error "session file not found" and creates neither the transcript nor
\* its temporary file.
C18_MissingFileErrorNothingCreated ==
    (sz.runs >= 1 /\ ~sz.orig.exists) =>
        /\ sz.errs[1] = "session file not found"
        /\ ~sz.outs[1].exists
        /\ ~sz.outs[1].tmp
        /\ ~SanitizedFile.exists
        /\ ~SanitizedFile.tmp

\* A call was made on a transcript that does not exist.
C18_Witness == sz.runs >= 1 /\ ~sz.orig.exists /\ sz.errs[1] # "none"


-----------------------------------------------------------------------------
(* Claim about a cleanup that fails after a successful discovery           *)

\* C19: when the discovery has found an id and cleanupInitMessage then
\* fails, the discovery still returns that id without an error: the
\* invocation goes on to put the id into the session, and the record it
\* saves carries the id and the invocation succeeds.
C19_CleanupFailureNotFatal ==
    [][\A p \in Procs :
          /\ (inv[p].pc = "cleanup" /\ inv'[p].pc # "cleanup" /\ inv'[p].cleanupErr # "none") =>
                /\ inv'[p].pc = "store"
                /\ inv'[p].res = "none"
                /\ inv'[p].newID = inv[p].newID
                /\ inv[p].newID # NoID
          /\ (inv[p].pc = "store" /\ inv'[p].pc # "store" /\ inv[p].cleanupErr # "none") =>
                /\ inv'[p].pc = "save"
                /\ inv'[p].session.ClaudeSessionID = inv[p].newID
          /\ (inv[p].pc = "save" /\ inv'[p].pc # "save" /\ inv[p].cleanupErr # "none") =>
                /\ inv'[p].pc = "done"
                /\ inv'[p].res = "ok"
                /\ recs'[SessionFile(inv[p].project, inv[p].name)].ClaudeSessionID
                       = inv[p].newID]_vars

\* An invocation whose cleanup failed has finished successfully and the
\* stored record carries the id it discovered.
C19_Witness ==
    \E p \in Procs :
        /\ inv[p].pc = "done"
        /\ inv[p].cleanupErr # "none"
        /\ inv[p].res = "ok"
        /\ inv[p].newID # NoID
        /\ recs[SessionFile(inv[p].project, inv[p].name)].ClaudeSessionID = inv[p].newID


-----------------------------------------------------------------------------
(* Manager.CompleteSession on stored records                               *)

MaxHistory == 4

\* types.SessionState
SessionStates == {"active", "paused", "completed", "archived", "error"}

\* types.StateChange
StateChange(state, timestamp, reason) ==
    [State |-> state, Timestamp |-> timestamp, Reason |-> reason]

\* A stored record of that name in that lifecycle state: created active,
\* and moved to the state when it is another one.
StoredIn(name, state) ==
    Session(name, PathA, NoID, T0, T0, NilSlice, NilMap, state,
            IF state = "active"
            THEN <<StateChange("active", T0, "session_created")>>
            ELSE <<StateChange("active", T0, "session_created"),
                   StateChange(state, T0, "state_changed")>>)

\* Every session file is absent or holds a record in one of the states.
InitLifecycle ==
    /\ sdir = FALSE
    /\ dir = [f \in FileNames |-> 0]
    /\ inode = [i \in Inodes |-> <<>>]
    /\ sv = [w \in Writers |-> IdleSave]
    /\ rd = IdleLoad
    /\ tr = NoTranscripts
    /\ recs \in [SessionFiles -> {NoRecord} \cup
                     {StoredIn(n, st) : n \in Names, st \in SessionStates}]
    /\ \A f \in SessionFiles : recs[f] = NoRecord \/ recs[f].SessionID = f[2]
    /\ inv = [p \in Procs |-> IdleInv]
    /\ now = 1
    /\ mon = IdleMon
    /\ sz = NoCalls
    /\ op = IdleOp
    /\ fs = NoFS
    /\ cc = NoCall

\* A completion that starts the history again with its own entry.
CompletedRewritten(session) ==
    [session EXCEPT !.State = "completed",
                    !.StateHistory = <<StateChange("completed", session.LastModified,
                                                   "manually_completed")>>]

\* CompleteSession's update of the loaded record: the state, and one more
\* state change with the record's LastModified as its time.
Completed(session) ==
    [session EXCEPT !.State = "completed",
                    !.StateHistory = Append(@, StateChange("completed", session.LastModified,
                                                           "manually_completed"))]

\* Manager.CompleteSession(sessionName): loads the record, sets the state,
\* appends the state change and saves.
CompleteSession(sessionName) ==
    LET f == SessionFile(PathA, sessionName)
        session == recs[f] IN
    /\ SessionExists(f)
    /\ Len(session.StateHistory) < MaxHistory
    /\ recs' = [recs EXCEPT ![f] = Completed(session)]
    /\ UNCHANGED <<tr, inv, now, mon>>
    /\ UNCHANGED storeVars

\* CompleteSession on a name without a record: LoadSession's error is returned.
CompleteSessionNotFound(sessionName) ==
    /\ ~SessionExists(SessionFile(PathA, sessionName))
    /\ UNCHANGED vars

NextLifecycle ==
    \/ \E n \in Names : CompleteSession(n)
    \/ \E n \in Names : CompleteSessionNotFound(n)

SpecLifecycle == InitLifecycle /\ [][NextLifecycle]_vars

\* C20: the state of a stored record becomes completed only from active or
\* paused: no step takes a record that is archived or in error to
\* completed.
C20_CompletedOnlyFromActiveOrPaused ==
    [][\A f \in SessionFiles :
          (recs[f].State # "completed" /\ recs'[f].State = "completed") =>
              recs[f].State \in {"active", "paused"}]_vars


-----------------------------------------------------------------------------
(* Calls on one session name, one after the other: kam <name>, the         *)
(* completion of the session and Storage.UpdateSessionAccess               *)

MaxClock == 6

\* Manager.CompleteSession, LoadSession: the record, or the error returned.
CompleteLoad(p, sessionName) ==
    LET f == SessionFile(PathA, sessionName) IN
    /\ inv[p].pc = "idle"
    /\ inv' = [inv EXCEPT ![p] =
                  IF SessionExists(f)
                  THEN [IdleInv EXCEPT !.pc = "complete", !.name = sessionName,
                                       !.project = PathA, !.session = recs[f],
                                       !.loaded = recs[f]]
                  ELSE [IdleInv EXCEPT !.pc = "done", !.name = sessionName,
                                       !.project = PathA, !.res = "SESSION_NOT_FOUND"]]
    /\ UNCHANGED <<tr, recs, now, mon>>
    /\ UNCHANGED storeVars

\* Manager.CompleteSession, the update and SaveSession.
CompleteSave(p) ==
    LET s == Completed(inv[p].session) IN
    /\ inv[p].pc = "complete"
    /\ Len(inv[p].session.StateHistory) < MaxHistory
    /\ recs' = [recs EXCEPT ![SessionFile(inv[p].project, s.SessionID)] = s]
    /\ inv' = [inv EXCEPT ![p].session = s, ![p].pc = "done", ![p].res = "ok"]
    /\ UNCHANGED <<tr, now, mon>>
    /\ UNCHANGED storeVars

\* Storage.UpdateSessionAccess, LoadSession: the record, or the error returned.
UpdateAccessLoad(p, sessionID) ==
    LET f == SessionFile(PathA, sessionID) IN
    /\ inv[p].pc = "idle"
    /\ inv' = [inv EXCEPT ![p] =
                  IF SessionExists(f)
                  THEN [IdleInv EXCEPT !.pc = "access", !.name = sessionID,
                                       !.project = PathA, !.session = recs[f],
                                       !.loaded = recs[f]]
                  ELSE [IdleInv EXCEPT !.pc = "done", !.name = sessionID,
                                       !.project = PathA, !.res = "SESSION_NOT_FOUND"]]
    /\ UNCHANGED <<tr, recs, now, mon>>
    /\ UNCHANGED storeVars

\* Storage.UpdateSessionAccess: LastAccessed = time.Now(), SaveSession.  The
\* other fields are saved as they were loaded.
UpdateAccessSave(p) ==
    LET s == inv[p].session IN
    /\ inv[p].pc = "access"
    /\ recs' = [recs EXCEPT ![SessionFile(inv[p].project, s.SessionID)] = s]
    /\ inv' = [inv EXCEPT ![p].pc = "done", ![p].res = "ok"]
    /\ now' = now + 1
    /\ UNCHANGED <<tr, mon>>
    /\ UNCHANGED storeVars

\* The command has returned, its monitor has ended, and kam is run again.
Return(p) ==
    /\ inv[p].pc = "done"
    /\ inv[p].monitor \in {"none", "done"}
    /\ inv' = [inv EXCEPT ![p] = IdleInv]
    /\ UNCHANGED <<tr, recs, now, mon>>
    /\ UNCHANGED storeVars

\* No record, a record as CreateOrResumeSession has stored it, bound to a
\* transcript that is there, or a record with its creation entry.
InitCalls ==
    /\ sdir = FALSE
    /\ dir = [f \in FileNames |-> 0]
    /\ inode = [i \in Inodes |-> <<>>]
    /\ sv = [w \in Writers |-> IdleSave]
    /\ rd = IdleLoad
    /\ \/ /\ recs = NoRecords
          /\ tr = NoTranscripts
       \/ /\ recs = [NoRecords EXCEPT ![TasksA] = BoundTo(2)]
          /\ tr = [NoTranscripts EXCEPT ![EncodePath(PathA)][2] = Transcript(<<UserLine, ReplyLine>>)]
       \/ /\ recs = [NoRecords EXCEPT ![TasksA] = StoredIn("Tasks", "active")]
          /\ tr = NoTranscripts
    /\ inv = [p \in Procs |-> IdleInv]
    /\ now = 1
    /\ mon = IdleMon
    /\ sz = NoCalls
    /\ op = IdleOp
    /\ fs = NoFS
    /\ cc = NoCall

\* The steps of a call once it has begun.
CallSteps(p) ==
    \/ CheckClaudeSession(p)
    \/ LaunchClaudeInteractively(p)
    \/ MonitorBaseline(p)
    \/ \E t \in TranscriptIds : ClaudeInteractive(p, t)
    \/ MonitorBinds(p)
    \/ MonitorEnds(p)
    \/ ClaudeExits(p)
    \/ ClaudeExitsWithError(p)
    \/ ReloadSession(p)
    \/ SaveAndReturn(p)
    \/ CompleteSave(p)
    \/ UpdateAccessSave(p)

\* One call at a time on the name Tasks.
NextSequence ==
    \/ now < MaxClock /\ CreateOrResumeSession("p1", "Tasks", PathA)
    \/ CompleteLoad("p1", "Tasks")
    \/ now < MaxClock /\ UpdateAccessLoad("p1", "Tasks")
    \/ CallSteps("p1")
    \/ Return("p1")

SpecSequence == InitCalls /\ [][NextSequence]_vars

IsPrefix(s, t) == Len(s) <= Len(t) /\ SubSeq(t, 1, Len(s)) = s

\* C21: over calls of CreateOrResumeSession, CompleteSession and
\* UpdateSessionAccess made one after the other, every step leaves the stored
\* stateHistory of a name a prefix of what it is afterwards, and the save of
\* CompleteSession appends exactly one entry, completed with the reason
\* "manually_completed", and stores the state completed.
C21_HistoryAppendOnly ==
    [][/\ \A f \in SessionFiles : IsPrefix(recs[f].StateHistory, recs'[f].StateHistory)
       /\ \A p \in Procs :
            (inv[p].pc = "complete" /\ inv'[p].pc = "done") =>
                LET f == SessionFile(inv[p].project, inv[p].name)
                    h == recs'[f].StateHistory IN
                /\ Len(h) = Len(recs[f].StateHistory) + 1
                /\ h[Len(h)].State = "completed"
                /\ h[Len(h)].Reason = "manually_completed"
                /\ recs'[f].State = "completed"]_vars

\* A record that was created by kam Tasks and bound has been completed, and
\* its history ends with the completion.
C21_Witness ==
    /\ inv["p1"].pc = "done"
    /\ inv["p1"].res = "ok"
    /\ inv["p1"].loaded.ClaudeSessionID # NoID
    /\ inv["p1"].loaded.StateHistory # <<>>
    /\ recs[TasksA].State = "completed"
    /\ Len(recs[TasksA].StateHistory) = Len(inv["p1"].loaded.StateHistory) + 1


\* C22: the stored stateHistory of a name has one entry for the creation and
\* one for every transition: the step that stores a record for the first
\* time stores one entry, a step that changes the stored state adds one
\* entry, and a step that leaves the state leaves the number of entries.
C22_HistoryCountsTransitions ==
    [][\A f \in SessionFiles :
          /\ (~SessionExists(f) /\ recs'[f].SessionID # "") =>
                Len(recs'[f].StateHistory) = 1
          /\ (SessionExists(f) /\ recs'[f].State # recs[f].State) =>
                Len(recs'[f].StateHistory) = Len(recs[f].StateHistory) + 1
          /\ (SessionExists(f) /\ recs'[f].State = recs[f].State) =>
                Len(recs'[f].StateHistory) = Len(recs[f].StateHistory)]_vars


-----------------------------------------------------------------------------
(* Two invocations that each make one call on the name Tasks, overlapping  *)

NextOverlap ==
    \/ \E p \in Procs : now < MaxClock /\ CreateOrResumeSession(p, "Tasks", PathA)
    \/ \E p \in Procs : CompleteLoad(p, "Tasks")
    \/ \E p \in Procs : now < MaxClock /\ UpdateAccessLoad(p, "Tasks")
    \/ \E p \in Procs : CallSteps(p)

SpecOverlap == InitCalls /\ [][NextOverlap]_vars

\* C23: no step takes the stored lastModified of a name to an earlier
\* instant, whichever invocation saves and whenever it loaded the record.
C23_LastModifiedNeverDecreases ==
    [][\A f \in SessionFiles :
          (SessionExists(f) /\ recs'[f].SessionID # "") =>
              recs'[f].LastModified.wall >= recs[f].LastModified.wall]_vars


-----------------------------------------------------------------------------
(* Storage.DeleteSession and Storage.ListSessions                          *)

\* Storage.DeleteSession(sessionID): os.Remove(sessionFile); SessionNotFound
\* when there is no such file.
DeleteSession(sessionID) ==
    LET f == FinalPath(sessionID) IN
    /\ op.pc # "readdir"
    /\ dir' = IF FileExists(f) THEN Unlink(dir, f) ELSE dir
    /\ op' = [IdleOp EXCEPT !.call = "DeleteSession", !.pc = "done", !.id = sessionID,
                            !.err = IF FileExists(f) THEN "none" ELSE "SESSION_NOT_FOUND"]
    /\ inode' = Collect(inode, dir', sv, rd)
    /\ UNCHANGED <<sdir, sv, rd>>
    /\ UNCHANGED <<tr, recs, inv, now, mon, sz, fs, cc>>

\* An extension test that takes every file for a record.
AnyExtJSON(f) == "json"

\* filepath.Ext(entry.Name()) without its dot: the last part of the name.
Ext(f) == f[Len(f)]

\* ListSessions, the loop over os.ReadDir: the names ending in .json,
\* without the extension.
ReadDirIDs(d) == {f[1] : f \in {g \in FileNames : d[g] # 0 /\ Ext(g) = "json"}}

\* ListSessions, os.Stat(s.sessionsDir): an empty list when the directory
\* does not exist.
ListStat ==
    /\ op.pc # "readdir"
    /\ op' = [IdleOp EXCEPT !.call = "ListSessions",
                            !.pc = IF sdir THEN "readdir" ELSE "done"]
    /\ UNCHANGED <<sdir, dir, inode, sv, rd>>
    /\ UNCHANGED <<tr, recs, inv, now, mon, sz, fs, cc>>

\* ListSessions, os.ReadDir and the loop over the entries.
ListReadDir ==
    /\ op.pc = "readdir"
    /\ op' = [op EXCEPT !.pc = "done", !.ids = ReadDirIDs(dir)]
    /\ UNCHANGED <<sdir, dir, inode, sv, rd>>
    /\ UNCHANGED <<tr, recs, inv, now, mon, sz, fs, cc>>

StoredDev == Session("Dev", "/a", "", T0, T0, NilSlice, NilMap, "active", <<"session_created">>)

\* What the file of a record holds at the start: the record's text, or a
\* text cut short that does not parse.
WholeOrCut(r) == {Marshal(r), SubSeq(Marshal(r), 1, Len(Marshal(r)) - 1)}

\* The sessions directory does not exist, or it exists and each of the two
\* records is absent, stored, or stored with a damaged file.
InitFiles ==
    /\ sdir \in BOOLEAN
    /\ \E t \in WholeOrCut(StoredTasks) \cup {<<>>}, d \in WholeOrCut(StoredDev) \cup {<<>>} :
          /\ (~sdir) => (t = <<>> /\ d = <<>>)
          /\ dir = [f \in FileNames |->
                       IF f = FinalPathOf("Tasks") /\ t # <<>> THEN 1
                       ELSE IF f = FinalPathOf("Dev") /\ d # <<>> THEN 2
                       ELSE 0]
          /\ inode = [i \in Inodes |-> IF i = 1 THEN t ELSE IF i = 2 THEN d ELSE <<>>]
    /\ sv = [w \in Writers |-> IdleSave]
    /\ rd = IdleLoad
    /\ tr = NoTranscripts
    /\ recs = NoRecords
    /\ inv = [p \in Procs |-> IdleInv]
    /\ now = 1
    /\ mon = IdleMon
    /\ sz = NoCalls
    /\ op = IdleOp
    /\ fs = NoFS
    /\ cc = NoCall

\* Saves of Tasks one after the other, one load, and deletes and listings.
NextFiles ==
    \/ SaveBegin("w1", ShortRec)
    \/ SaveSteps("w1")
    \/ \E id \in SessionIds : rd.pc = "idle" /\ LoadBegin(id)
    \/ LoadSteps
    \/ \E id \in SessionIds : DeleteSession(id)
    \/ ListStat
    \/ ListReadDir

SpecFiles == InitFiles /\ [][NextFiles]_vars

-----------------------------------------------------------------------------
(* Claims about LoadSession, DeleteSession and ListSessions                *)

\* The step leaves the sessions directory as it is: whether it exists, its
\* entries, and what every file holds.
StoreUnchanged ==
    /\ sdir' = sdir
    /\ dir' = dir
    /\ \A f \in FileNames : dir[f] # 0 => inode'[dir[f]] = inode[dir[f]]

\* C24: a LoadSession whose file does not exist when it is looked for
\* returns SESSION_NOT_FOUND, and no step of LoadSession changes the
\* store: the directory is not created and no file appears or changes.
C24_LoadNotFoundStoreUnchanged ==
    [][/\ (rd.pc = "stat" /\ rd' # rd /\ ~FileExists(FinalPath(rd.id))) =>
             (rd'.pc = "done" /\ rd'.res = "SESSION_NOT_FOUND")
       /\ (rd' # rd /\ sv' = sv) => StoreUnchanged]_vars

\* A load of Tasks has returned SESSION_NOT_FOUND and the sessions
\* directory still does not exist.
C24_Witness ==
    /\ rd.pc = "done"
    /\ rd.id = "Tasks"
    /\ rd.res = "SESSION_NOT_FOUND"
    /\ ~sdir
    /\ \A f \in FileNames : ~FileExists(f)


\* C25: a LoadSession that has read a text that does not deserialize
\* returns SESSION_CORRUPTED and leaves the file as it is.
C25_CorruptedFileReported ==
    [][(rd.pc = "parse" /\ rd'.pc = "done" /\ ~Parses(rd.buf)) =>
          (rd'.res = "SESSION_CORRUPTED" /\ StoreUnchanged)]_vars


\* The step is a DeleteSession call.
DeleteStep ==
    /\ op'.call = "DeleteSession"
    /\ sv' = sv
    /\ rd' = rd
    /\ (op' # op \/ dir' # dir)

\* C26: DeleteSession of an id without a file returns SESSION_NOT_FOUND and
\* changes nothing; DeleteSession of a stored id succeeds, and then the file
\* of the id does not exist, the listing does not hold the id, and every
\* other file is there as before with what it held.
C26_DeleteRemovesOnlyThatRecord ==
    [][DeleteStep =>
          LET f == FinalPath(op'.id) IN
          IF ~FileExists(f)
          THEN op'.err = "SESSION_NOT_FOUND" /\ StoreUnchanged
          ELSE /\ op'.err = "none"
               /\ dir'[f] = 0
               /\ op'.id \notin ReadDirIDs(dir')
               /\ sdir' = sdir
               /\ \A g \in FileNames \ {f} :
                     /\ dir'[g] = dir[g]
                     /\ dir[g] # 0 => inode'[dir[g]] = inode[dir[g]]]_vars

\* Tasks has been deleted while Dev is stored: Tasks is gone and Dev is
\* still listed.
C26_Witness ==
    /\ op.call = "DeleteSession"
    /\ op.id = "Tasks"
    /\ op.err = "none"
    /\ ~FileExists(FinalPathOf("Tasks"))
    /\ FileContent(FinalPathOf("Dev")) = Marshal(StoredDev)
    /\ ReadDirIDs(dir) = {"Dev"}

\* C27: ListSessions returns without error exactly the ids whose file
\* exists when the directory is read, whatever saves and deletes came
\* before and whatever temporary file a save in progress has left there, and
\* the empty list when the sessions directory does not exist.
C27_ListIsStoredIds ==
    [][/\ (op.pc = "readdir" /\ op'.pc = "done") =>
             /\ op'.err = "none"
             /\ op'.ids = {id \in SessionIds : FileExists(FinalPathOf(id))}
       /\ (op'.call = "ListSessions" /\ op.pc # "readdir" /\ op' # op /\ ~sdir) =>
             (op'.pc = "done" /\ op'.err = "none" /\ op'.ids = {})]_vars

\* A listing made while a save of Tasks has its temporary file in the
\* directory and only Dev is stored.
C27_Witness ==
    /\ op.call = "ListSessions"
    /\ op.pc = "done"
    /\ op.ids = {"Dev"}
    /\ FileExists(TempPathOf("Tasks"))
    /\ ~FileExists(FinalPathOf("Tasks"))
    /\ sv["w1"].pc \in MidSave

-----------------------------------------------------------------------------
(* The two discovery procedures next to stored records                     *)

\* A record Dev is stored; StartFreshAndDiscoverSessionID will run for Tasks
\* and monitorForSession has been called for PathA.
InitDiscovery ==
    /\ sdir = FALSE
    /\ dir = [f \in FileNames |-> 0]
    /\ inode = [i \in Inodes |-> <<>>]
    /\ sv = [w \in Writers |-> IdleSave]
    /\ rd = IdleLoad
    /\ tr \in {NoTranscripts,
               [NoTranscripts EXCEPT ![EncodePath(PathA)][2] = Transcript(<<ReplyLine>>)]}
    /\ recs = [NoRecords EXCEPT ![SessionFile(PathA, "Dev")] = StoredIn("Dev", "active")]
    /\ inv = [p \in Procs |-> IdleInv]
    /\ now = 1
    /\ mon = [IdleMon EXCEPT !.pc = "check", !.workingDir = PathA,
                             !.before = SortedSeq({t \in TranscriptIds :
                                                     tr[EncodePath(PathA)][t].exists})]
    /\ sz = NoCalls
    /\ op = IdleOp
    /\ fs = NoFS
    /\ cc = NoCall

\* kam Tasks with the blocking discovery, and monitorForSession polling.
NextDiscovery ==
    \/ CreateOrResumeSession("p1", "Tasks", PathA)
    \/ CheckClaudeSession("p1")
    \/ DiscoverBefore("p1")
    \/ DiscoverFail("p1")
    \/ \E t \in TranscriptIds : ClaudePrint("p1", t)
    \/ ClaudePrintNoTranscript("p1")
    \/ ClaudePrintFail("p1")
    \/ DiscoverAfter("p1")
    \/ \E fault \in Faults : CleanupInitMessage("p1", fault)
    \/ StoreDiscoveredID("p1")
    \/ SaveAndReturn("p1")
    \/ MonitorLoop
    \/ MonitorScan
    \/ MonitorScanFail
    \/ MonitorSleep
    \/ \E t \in TranscriptIds : ClaudeWritesTranscript(t)

SpecDiscovery == InitDiscovery /\ [][NextDiscovery]_vars

\* The invocation is inside StartFreshAndDiscoverSessionID.
InDiscovery(p) == inv[p].pc \in {"setup", "run", "after", "cleanup"}

\* C29: no step of StartFreshAndDiscoverSessionID and no step of
\* monitorForSession changes a stored session record, whether the
\* discovery ends with an id or with an error.
C29_DiscoveryWritesNoRecord ==
    [][((\E p \in Procs : InDiscovery(p) /\ inv'[p] # inv[p]) \/ mon' # mon) =>
          recs' = recs]_vars

\* Both discoveries have returned an id, the caller has not saved yet, and
\* the records are the ones stored at the start.
C29_Witness ==
    /\ inv["p1"].pc = "store"
    /\ inv["p1"].newID # NoID
    /\ mon.pc = "done"
    /\ mon.res = "ok"
    /\ recs = [NoRecords EXCEPT ![SessionFile(PathA, "Dev")] = StoredIn("Dev", "active")]

-----------------------------------------------------------------------------
(* The errors of the collaborators of Manager.CreateOrResumeSession         *)

\* HasSession returns an error (os.UserHomeDir fails): err != nil || !exists
\* makes the call start a fresh Claude.
HasSessionFails(p) ==
    /\ inv[p].pc = "check"
    /\ inv[p].session.ClaudeSessionID # NoID
    /\ inv' = [inv EXCEPT ![p].fresh = TRUE, ![p].pc = "setup",
                          ![p].failed = Append(@, UserHomeDirError)]
    /\ UNCHANGED <<tr, recs, now, mon>>
    /\ UNCHANGED storeVars

\* spawnMonitorProcess fails: LaunchClaudeInteractively returns "failed to
\* spawn monitor process", setupClaudeSession returns it and
\* CreateOrResumeSession returns it wrapped.
SpawnMonitorFails(p) ==
    /\ inv[p].pc = "setup"
    /\ inv' = [inv EXCEPT ![p].pc = "done", ![p].res = "spawn_failed",
                          ![p].failed = Append(@, SpawnFailed),
                          ![p].err = SetupError(SpawnFailed)]
    /\ UNCHANGED <<tr, recs, now, mon>>
    /\ UNCHANGED storeVars

\* SaveSession fails: CreateOrResumeSession returns its error.
SaveSessionFails(p) ==
    /\ inv[p].pc = "save"
    /\ inv' = [inv EXCEPT ![p].session.LastModified = TimeNow,
                          ![p].pc = "done", ![p].res = "save_failed",
                          ![p].failed = Append(@, StoragePermission),
                          ![p].err = StoragePermission]
    /\ now' = now + 1
    /\ UNCHANGED <<tr, recs, mon>>
    /\ UNCHANGED storeVars

\* kam <name> on every kind of stored record, with every collaborator
\* succeeding or failing.
NextErrors ==
    \/ \E w \in Projects : CreateOrResumeSession("p1", "Tasks", w)
    \/ CheckClaudeSession("p1")
    \/ HasSessionFails("p1")
    \/ LaunchClaudeInteractively("p1")
    \/ SpawnMonitorFails("p1")
    \/ MonitorBaseline("p1")
    \/ \E t \in TranscriptIds : ClaudeInteractive("p1", t)
    \/ MonitorBinds("p1")
    \/ MonitorEnds("p1")
    \/ ClaudeExits("p1")
    \/ ClaudeExitsWithError("p1")
    \/ ReloadSession("p1")
    \/ SaveSessionFails("p1")
    \/ SaveAndReturn("p1")

SpecErrors == InitResume /\ [][NextErrors]_vars

\* C30: when a collaborator of CreateOrResumeSession has failed (the
\* transcript existence check, the launch, the reload of the record or the
\* save), the call returns that error, as the collaborator returned it.
C30_CollaboratorErrorsSurface ==
    \A p \in Procs :
        (inv[p].pc = "done" /\ inv[p].failed # <<>>) => inv[p].err = inv[p].failed[1]


-----------------------------------------------------------------------------
(* internal/claude: the name of the transcript directory of a working      *)
(* directory                                                                *)

MaxPathLen == 4     \* characters of a working directory

PathChars == {"/", "-", "a"}

\* A working directory as os.Getwd returns it: absolute and clean (no empty
\* element, no trailing separator).
IsWorkingDir(w) ==
    /\ w[1] = "/"
    /\ w[Len(w)] # "/"
    /\ \A i \in 1..(Len(w) - 1) : ~(w[i] = "/" /\ w[i + 1] = "/")

WorkingDirs ==
    {w \in UNION {[1..n -> PathChars] : n \in 2..MaxPathLen} : IsWorkingDir(w)}

\* Two working directories, not yet encoded.
InitEncode ==
    /\ sdir = FALSE
    /\ dir = [f \in FileNames |-> 0]
    /\ inode = [i \in Inodes |-> <<>>]
    /\ sv = [w \in Writers |-> IdleSave]
    /\ rd = IdleLoad
    /\ tr = NoTranscripts
    /\ recs = NoRecords
    /\ inv = [p \in Procs |-> IdleInv]
    /\ now = 1
    /\ mon = IdleMon
    /\ sz = NoCalls
    /\ op = IdleOp
    /\ fs = NoFS
    /\ \E w1 \in WorkingDirs, w2 \in WorkingDirs :
           cc = [NoCall EXCEPT !.args = <<w1, w2>>]

\* encodedPath := strings.ReplaceAll(workingDir, "/", "-"), for both.
EncodeWorkingDirs ==
    /\ cc.call = "none"
    /\ cc' = [cc EXCEPT !.call = "encode",
                        !.out = <<EncodePath(cc.args[1]), EncodePath(cc.args[2])>>]
    /\ UNCHANGED <<sdir, dir, inode, sv, rd, tr, recs, inv, now, mon, sz, op, fs>>

NextEncode == EncodeWorkingDirs

SpecEncode == InitEncode /\ [][NextEncode]_vars

\* C31: two different working directories never have the same encoded
\* name, so they never share a transcript directory.
C31_EncodingInjective ==
    (cc.call = "encode" /\ cc.args[1] # cc.args[2]) => cc.out[1] # cc.out[2]

-----------------------------------------------------------------------------
(* internal/claude: Client.DiscoverExistingSessions and Client.HasSession,  *)
(* entry by entry.  A transcript directory is there or not; when it is      *)
(* there, each entry name <<id, extension>> is no entry, a file or a        *)
(* directory.  A working directory is a directory, a symbolic link to one,  *)
(* or a path that filepath.EvalSymlinks cannot resolve.                     *)

MaxEntryIds == 2    \* ids that entries of a transcript directory can carry

PathL == <<"/", "l">>
SurfacePaths == {PathA, PathB, PathL}
EntryIds == 1..MaxEntryIds
Exts == {"jsonl", "txt"}
EntryNames == EntryIds \X Exts
Kinds == {"none", "file", "dir"}

NoDir == [exists |-> FALSE, kind |-> [n \in EntryNames |-> "none"]]
DirWith(kind) == [exists |-> TRUE, kind |-> kind]

\* filepath.EvalSymlinks(workingDir): <<>> stands for its error.
EvalSymlinks(workingDir) == fs.links[workingDir]

\* The path is used as it was given.
Unresolved(workingDir) == workingDir

\* canonicalPath: the resolved path, or the original one when resolution
\* fails.
CanonicalPath(workingDir) ==
    IF EvalSymlinks(workingDir) = <<>> THEN workingDir ELSE EvalSymlinks(workingDir)

ProjectDir(path) == fs.ents[EncodePath(path)]

\* Every entry counts as a session file.
AnyEntry(d, n) == d.kind[n] # "none"

\* !entry.IsDir() && filepath.Ext(entry.Name()) == ".jsonl"
IsSessionFile(d, n) == d.kind[n] = "file" /\ n[2] = "jsonl"

\* From os.Stat(projectDir) on: no directory, no sessions; otherwise the
\* ids of the session files among the entries, in os.ReadDir order.
ReadSessionIDs(d) ==
    IF ~d.exists THEN [ids |-> <<>>, err |-> "none"]
    ELSE [ids |-> SortedSeq({n[1] : n \in {m \in EntryNames : IsSessionFile(d, m)}}),
          err |-> "none"]

\* DiscoverExistingSessions of the client that resolves symbolic links.
DiscoverResolved(workingDir) == ReadSessionIDs(ProjectDir(CanonicalPath(workingDir)))

\* DiscoverExistingSessions of the client that encodes the path as given.
DiscoverUnresolved(workingDir) == ReadSessionIDs(ProjectDir(Unresolved(workingDir)))

\* os.Stat(sessionFile): err == nil
StatOK(d, sessionID) == d.exists /\ d.kind[<<sessionID, "jsonl">>] # "none"

\* HasSession of the client that resolves symbolic links.
HasSessionResolved(sessionID, workingDir) ==
    IF sessionID = NoID THEN [has |-> FALSE, err |-> "none"]
    ELSE [has |-> StatOK(ProjectDir(CanonicalPath(workingDir)), sessionID), err |-> "none"]

\* HasSession of the client that encodes the path as given.
HasSessionUnresolved(sessionID, workingDir) ==
    IF sessionID = NoID THEN [has |-> FALSE, err |-> "none"]
    ELSE [has |-> StatOK(ProjectDir(Unresolved(workingDir)), sessionID), err |-> "none"]

\* /a and /b are directories; /l is a directory, a symbolic link to /a or
\* unresolvable.  The transcript directory of /a holds any entries or is
\* missing, that of /l holds one transcript or is missing, that of /b is
\* missing.
InitScan ==
    /\ sdir = FALSE
    /\ dir = [f \in FileNames |-> 0]
    /\ inode = [i \in Inodes |-> <<>>]
    /\ sv = [w \in Writers |-> IdleSave]
    /\ rd = IdleLoad
    /\ tr = NoTranscripts
    /\ recs = NoRecords
    /\ inv = [p \in Procs |-> IdleInv]
    /\ now = 1
    /\ mon = IdleMon
    /\ sz = NoCalls
    /\ op = IdleOp
    /\ \E l \in {PathL, PathA, <<>>},
          a \in {NoDir} \cup {DirWith(k) : k \in [EntryNames -> Kinds]},
          b \in {NoDir, DirWith([n \in EntryNames |-> IF n = <<1, "jsonl">> THEN "file" ELSE "none"])} :
           fs = [links |-> [w \in SurfacePaths |-> IF w = PathL THEN l ELSE w],
                 ents |-> [d \in {EncodePath(w) : w \in SurfacePaths} |->
                              IF d = EncodePath(PathA) THEN a
                              ELSE IF d = EncodePath(PathL) THEN b ELSE NoDir]]
    /\ cc = NoCall

CallDiscoverExistingSessions(workingDir) ==
    /\ cc.call = "none"
    /\ cc' = [call |-> "DiscoverExistingSessions", args |-> <<workingDir>>,
              out |-> DiscoverResolved(workingDir)]
    /\ UNCHANGED <<sdir, dir, inode, sv, rd, tr, recs, inv, now, mon, sz, op, fs>>

CallDiscoverUnresolved(workingDir) ==
    /\ cc.call = "none"
    /\ cc' = [call |-> "DiscoverExistingSessions (as given)", args |-> <<workingDir>>,
              out |-> DiscoverUnresolved(workingDir)]
    /\ UNCHANGED <<sdir, dir, inode, sv, rd, tr, recs, inv, now, mon, sz, op, fs>>

CallHasSession(sessionID, workingDir) ==
    /\ cc.call = "none"
    /\ cc' = [call |-> "HasSession", args |-> <<sessionID, workingDir>>,
              out |-> HasSessionResolved(sessionID, workingDir)]
    /\ UNCHANGED <<sdir, dir, inode, sv, rd, tr, recs, inv, now, mon, sz, op, fs>>

CallHasSessionUnresolved(sessionID, workingDir) ==
    /\ cc.call = "none"
    /\ cc' = [call |-> "HasSession (as given)", args |-> <<sessionID, workingDir>>,
              out |-> HasSessionUnresolved(sessionID, workingDir)]
    /\ UNCHANGED <<sdir, dir, inode, sv, rd, tr, recs, inv, now, mon, sz, op, fs>>

NextScan ==
    \/ \E w \in SurfacePaths : CallDiscoverExistingSessions(w)
    \/ \E w \in SurfacePaths : CallDiscoverUnresolved(w)
    \/ \E id \in EntryIds \cup {NoID}, w \in SurfacePaths : CallHasSession(id, w)
    \/ \E id \in EntryIds \cup {NoID}, w \in SurfacePaths : CallHasSessionUnresolved(id, w)

SpecScan == InitScan /\ [][NextScan]_vars

\* The directory a working directory denotes: the target of the link, the
\* directory itself, or none.
Denotes(workingDir) == fs.links[workingDir]

\* The transcript directory of the directory a path denotes.
TranscriptDirOf(workingDir) == fs.ents[EncodePath(Denotes(workingDir))]

\* C32: DiscoverExistingSessions returns, without error, exactly the ids of
\* the entries of the transcript directory that are not directories and
\* end in .jsonl, each once; and the empty list when the directory does
\* not exist.
C32_DiscoverListsJSONLFiles ==
    (cc.call = "DiscoverExistingSessions" /\ Denotes(cc.args[1]) # <<>>) =>
        LET d == TranscriptDirOf(cc.args[1]) IN
        /\ cc.out.err = "none"
        /\ d.exists =>
              /\ Range(cc.out.ids) = {id \in EntryIds : d.kind[<<id, "jsonl">>] = "file"}
              /\ Len(cc.out.ids) = Cardinality(Range(cc.out.ids))
        /\ ~d.exists => cc.out.ids = <<>>

\* A directory with a transcript, a directory named like one, and a text
\* file has been listed.
C32_Witness ==
    /\ cc.call = "DiscoverExistingSessions"
    /\ cc.args = <<PathA>>
    /\ ProjectDir(PathA).exists
    /\ ProjectDir(PathA).kind[<<1, "jsonl">>] = "file"
    /\ ProjectDir(PathA).kind[<<2, "jsonl">>] = "dir"
    /\ ProjectDir(PathA).kind[<<1, "txt">>] = "file"
    /\ cc.out.ids = <<1>>

\* Two paths that denote the same directory.
SameDirectory(w1, w2) == Denotes(w1) # <<>> /\ Denotes(w1) = Denotes(w2)

\* C33: two paths that denote the same directory give the same transcript
\* ids in DiscoverExistingSessions and the same answer in HasSession, and a
\* path that cannot be resolved is used as it is, without an error.
C33_SameDirectorySameTranscripts ==
    /\ cc.call = "DiscoverExistingSessions" =>
          \A w \in SurfacePaths : SameDirectory(cc.args[1], w) =>
              Range(DiscoverResolved(w).ids) = Range(cc.out.ids)
    /\ cc.call = "DiscoverExistingSessions (as given)" =>
          \A w \in SurfacePaths : SameDirectory(cc.args[1], w) =>
              Range(DiscoverUnresolved(w).ids) = Range(cc.out.ids)
    /\ cc.call = "HasSession" =>
          \A w \in SurfacePaths : SameDirectory(cc.args[2], w) =>
              HasSessionResolved(cc.args[1], w).has = cc.out.has
    /\ cc.call = "HasSession (as given)" =>
          \A w \in SurfacePaths : SameDirectory(cc.args[2], w) =>
              HasSessionUnresolved(cc.args[1], w).has = cc.out.has
    /\ cc.call # "none" => cc.out.err = "none"

\* C39: for a non-empty id, HasSession(id, dir) is true exactly when id is
\* in the list DiscoverExistingSessions(dir) returns; HasSession("", dir)
\* is false without error.
C39_HasSessionAgreesWithScanner ==
    /\ (cc.call = "HasSession" /\ cc.args[1] # NoID) =>
          (cc.out.has <=> cc.args[1] \in Range(DiscoverResolved(cc.args[2]).ids))
    /\ (cc.call = "HasSession (as given)" /\ cc.args[1] # NoID) =>
          (cc.out.has <=> cc.args[1] \in Range(DiscoverUnresolved(cc.args[2]).ids))
    /\ (cc.call \in {"HasSession", "HasSession (as given)"} /\ cc.args[1] = NoID) =>
          (~cc.out.has /\ cc.out.err = "none")

-----------------------------------------------------------------------------
(* The cleanup timer of LaunchClaudeInteractively: a goroutine of the       *)
(* launching process that sleeps one minute and then kills the monitor      *)
(* subprocess.  age counts the seconds since the monitor was spawned.       *)

Ceiling == 60       \* time.Sleep(1 * time.Minute), in seconds

MonitorRunning(p) == inv[p].monitor \in {"spawned", "polling"}

\* What becomes of the cleanup goroutine when its process ends.
TimerAtExit(timer) == IF timer = "armed" THEN "lost" ELSE timer

\* One second passes; the sleep of an armed timer does not overrun.
Tick(p) ==
    /\ MonitorRunning(p)
    /\ inv[p].age <= Ceiling
    /\ ~(inv[p].timer = "armed" /\ inv[p].age >= Ceiling)
    /\ inv' = [inv EXCEPT ![p].age = @ + 1]
    /\ UNCHANGED <<tr, recs, now, mon>>
    /\ UNCHANGED storeVars

\* The goroutine wakes up: monitorCmd.Process.Kill().
KillMonitor(p) ==
    /\ inv[p].timer = "armed"
    /\ inv[p].age >= Ceiling
    /\ inv' = [inv EXCEPT ![p].timer = "fired",
                          ![p].monitor = IF MonitorRunning(p) THEN "done" ELSE @]
    /\ UNCHANGED <<tr, recs, now, mon>>
    /\ UNCHANGED storeVars

\* CreateOrResumeSession has returned and kam ends (or replaces itself by
\* claude --resume): its goroutines end with it.
KamExits(p) ==
    /\ inv[p].pc = "done"
    /\ inv' = [inv EXCEPT ![p].pc = "exited", ![p].timer = TimerAtExit(@)]
    /\ UNCHANGED <<tr, recs, now, mon>>
    /\ UNCHANGED storeVars

\* kam <name> with the monitor subprocess, second by second.
NextCeiling ==
    \/ \E w \in Projects : CreateOrResumeSession("p1", "Tasks", w)
    \/ CheckClaudeSession("p1")
    \/ LaunchClaudeInteractively("p1")
    \/ MonitorBaseline("p1")
    \/ \E t \in TranscriptIds : ClaudeInteractive("p1", t)
    \/ MonitorBinds("p1")
    \/ MonitorEnds("p1")
    \/ ClaudeExits("p1")
    \/ ClaudeExitsWithError("p1")
    \/ ReloadSession("p1")
    \/ SaveAndReturn("p1")
    \/ Tick("p1")
    \/ KillMonitor("p1")
    \/ KamExits("p1")

SpecCeiling == InitResume /\ [][NextCeiling]_vars

\* C34: when more than the ceiling has passed since the monitor was
\* spawned, the monitor is not running any more, whether or not the
\* launching invocation has returned.
C34_MonitorEndsByCeiling ==
    \A p \in Procs : inv[p].age > Ceiling => ~MonitorRunning(p)

-----------------------------------------------------------------------------
(* Claims about the fields of a stored record over several calls *)

\* The existence check of the call of p reported its bound transcript
\* missing.
ReportedMissing(p) == inv[p].fresh /\ inv[p].loaded.ClaudeSessionID # NoID

\* C35: over calls of CreateOrResumeSession, CompleteSession and
\* UpdateSessionAccess on a stored record, SessionID and Project.Path stay
\* as they are; Claude.SessionID, once it is not empty, changes only in a
\* CreateOrResumeSession whose existence check reported the bound
\* transcript missing; and a resume whose check succeeded saves the
\* Claude.SessionID it loaded.
C35_IdentityAndBindingStable ==
    [][/\ \A f \in SessionFiles :
            SessionExists(f) =>
                /\ recs'[f].SessionID = recs[f].SessionID
                /\ recs'[f].Path = recs[f].Path
                /\ (/\ recs[f].ClaudeSessionID # NoID
                    /\ recs'[f].ClaudeSessionID # recs[f].ClaudeSessionID)
                   => \E p \in Procs : /\ SessionFile(inv[p].project, inv[p].name) = f
                                        /\ ReportedMissing(p)
       /\ \A p \in Procs :
            (inv[p].pc = "save" /\ ~inv[p].fresh /\ inv'[p].pc = "done") =>
                recs'[SessionFile(inv[p].project, inv[p].name)].ClaudeSessionID =
                    inv[p].loaded.ClaudeSessionID]_vars

\* C37: when CreateOrResumeSession has returned and the monitor it spawned
\* has saved a binding and ended, the stored record carries the
\* Claude.SessionID the monitor found, in whatever order the monitor's
\* save, the reload and the final save took place.
C37_MonitorBindingKept ==
    \A p \in Procs :
        (/\ inv[p].pc = "done"
         /\ inv[p].res = "ok"
         /\ inv[p].monitor = "done"
         /\ inv[p].bound # NoID)
        => recs[SessionFile(inv[p].project, inv[p].name)].ClaudeSessionID = inv[p].bound

-----------------------------------------------------------------------------
(* Claims about what the tool does to transcripts *)

\* The transcript as Claude wrote it in print mode.
AsWritten == Transcript(<<InitLine, ReplyLine>>).data

\* A stored record is bound to transcript t of the transcript directory d.
BoundInStore(d, t) ==
    \E f \in SessionFiles :
        /\ SessionExists(f)
        /\ recs[f].ClaudeSessionID = t
        /\ EncodePath(recs[f].WorkingDirectory) = d

\* The step is the sanitization pass of p on the transcript it has just
\* discovered.
SanitizesDiscovered(p, d, t) ==
    /\ inv[p].pc = "cleanup"
    /\ inv'[p].pc # "cleanup"
    /\ inv[p].newID = t
    /\ EncodePath(WorkingDirectory(p)) = d

\* C36: no step deletes a transcript; the bytes of a transcript change only
\* in the sanitization pass of the invocation that has just discovered it,
\* never for a transcript of that invocation's baseline or one a stored
\* record is bound to, and only once (the transcript is as Claude wrote
\* it when the pass begins).
C36_TranscriptsEditedOnceAfterDiscovery ==
    [][\A d \in TranscriptDirs, t \in TranscriptIds :
          /\ tr[d][t].exists => tr'[d][t].exists
          /\ (tr[d][t].exists /\ tr'[d][t].data # tr[d][t].data) =>
                /\ \E p \in Procs : /\ SanitizesDiscovered(p, d, t)
                                     /\ ~Found(t, inv[p].before)
                /\ ~BoundInStore(d, t)
                /\ tr[d][t].data = AsWritten]_vars

\* The call of p has returned the error of a failed launch or discovery.
LaunchOrDiscoveryFailed(p) ==
    /\ inv[p].pc = "done"
    /\ inv[p].res \in {"start_failed", "discovery_failed", "scan_error", "spawn_failed"}

\* C38: when CreateOrResumeSession has returned an error because Claude or
\* the discovery failed, the record of the session name is what it was
\* when the call began: none for a new name, the loaded one, with its
\* binding and timestamps, for a stored name.
C38_FailedCallLeavesStore ==
    \A p \in Procs :
        LaunchOrDiscoveryFailed(p) =>
            recs[SessionFile(inv[p].project, inv[p].name)] = inv[p].loaded

-----------------------------------------------------------------------------
(* Termination of Client.monitorForSession *)

\* monitorForSession is sequential code: the loop test, the scan and
\* time.Sleep each return and the next statement runs.
SpecPollFair ==
    /\ InitPoll
    /\ [][NextPoll]_vars
    /\ WF_vars(MonitorLoop)
    /\ WF_vars(MonitorScan \/ MonitorScanFail)
    /\ WF_vars(MonitorSleep)

\* C40: monitorForSession returns, with an id or with the timeout error,
\* after at most timeout / 1 s poll ticks, whatever the scans do (list
\* nothing, list no new id, fail every time).
C40_MonitorTerminates ==
    /\ [](Len(mon.hist) <= Timeout /\ mon.elapsed <= Timeout)
    /\ <>(mon.pc = "done" /\ mon.res \in {"ok", "timeout"})

\* Every scan failed, and the call has returned the timeout error.
C40_Witness ==
    /\ mon.pc = "done"
    /\ mon.res = "timeout"
    /\ Len(mon.hist) = Timeout
    /\ \A k \in 1..Len(mon.hist) : ~mon.hist[k].ok

====
